---- MODULE Spec2Model ----
(***************************************************************************)
(* PyRC: the numeric-reply handlers (join-state machine, nick collision,   *)
(* SASL results, 001), the /cyclechannel command, the parts of the client  *)
(* logic they call, and the DCC manager (accepting offers, the transfer    *)
(* table, the cleanup timer).                                              *)
(*                                                                         *)
(* Strings are sequences of one-character strings, so that lower(),        *)
(* endswith(), slicing and the 9-character truncation are computed the way *)
(* the Python code computes them.  User lists and scrollback text are not  *)
(* part of the state: add_message is recorded by its target context.       *)
(*                                                                         *)
(* The threads of the client are modelled statement by statement where     *)
(* they share state: add_message against the main loop's check, refresh,   *)
(* clear; process_user_command and its depth counter; the DCC manager's    *)
(* lock, cleanup timer and shutdown; two accepts of one passive offer.     *)
(***************************************************************************)
EXTENDS Integers, Sequences, FiniteSets, TLC

VARIABLES
    contexts,                    \* ContextManager.contexts: normalized name -> Context
    currently_joined_channels,   \* ConnectionInfo.currently_joined_channels (names as stored)
    active_context_name,         \* ContextManager.active_context_name
    last_join_command_target,    \* IRCClient_Logic.last_join_command_target (None is <<>>)
    initial_channels,            \* ConnectionInfo.initial_channels
    ui_needs_update,             \* IRCClient_Logic.ui_needs_update
    nick,                        \* ConnectionInfo.nick
    initial_nick,                \* RegistrationHandler.initial_nick
    is_handling_nick_collision,  \* NetworkHandler.is_handling_nick_collision
    last_attempted_nick_change,  \* ConnectionInfo.last_attempted_nick_change (None is <<>>)
    connection_state,            \* StateManager connection_state
    last,                        \* the handler that ran last: its input, the state it
                                 \* started from and what it emitted
    run433,                      \* the 433 replies handled so far, while nothing else has run
    auto_retries,                \* how many automatic NICK retries were sent
    sasl_completed,              \* SaslAuthenticator.is_completed()
    sasl_result,                 \* the outcome the SASL authenticator was given
    cap_end_sent,                \* CAP END went out: registration continues
    transfers,                   \* DCCManager.transfers: transfer id -> DCCTransfer
    transfer_ids_generated,      \* how many transfer ids _generate_transfer_id has handed out
    pending_passive_offers,      \* DCCPassiveOfferManager: token -> offer
    bound_ports,                 \* the ports our listening sockets are bound to
    ports_in_use,                \* the ports other processes hold
    dcc_config,                  \* DCCManager.dcc_config (port range, enabled, resume_enabled)
    now,                         \* time.monotonic()
    cleanup_due,                 \* when DCCManager._cleanup_timer fires
    dcc_returned,                \* what the DCC call that ran last returned
    cancelled,                   \* the ids for which cancel_transfer returned True
    send_queues,                 \* DCCSendManager.send_queues: peer nick -> queued files
    queue_attempts,              \* per transfer id, how often its end made the manager
                                 \* call _process_next_in_send_queue
    validator_accepts,           \* StateManager: the validator of connection_info accepts
                                 \* what the handlers pass to set
    config_errors,               \* StateManager.get_config_errors(), as a set
    scrollback,                  \* per context, the lines add_message put in its scrollback
    scrollback_offset,           \* Context.scrollback_offset
    ignore_list,                 \* the ignore patterns of the configuration
    pc,                          \* per thread, where it is in the code it runs
    buffer,                      \* the scrollback of the context the threads write to:
                                 \* the lines in order, each with its message and part
    pending_signal,              \* ui_needs_update was set and no refresh has started since
    _processing_depth,           \* CommandHandler._processing_depth
    command_stack,               \* the process_user_command calls whose handler is running,
                                 \* the outermost first
    command_log,                 \* the process_user_command calls that have returned: the
                                 \* line, whether a call was in progress, what came back
    dcc_pc,                      \* per thread that calls the DCC manager, where it is
    _lock,                       \* DCCManager._lock: the thread that holds it, "" for none
    _cleanup_timer,              \* DCCManager._cleanup_timer: None, or the Timer it refers
                                 \* to by its state (waiting, fired)
    shutdown_returned,           \* DCCManager.shutdown() has returned
    workers,                     \* the transfers whose thread start_transfer_thread started
    dcc_log                      \* per transfer, what the DCC manager dispatched and
                                 \* sent for it, in order

vars == <<contexts, currently_joined_channels, active_context_name,
          last_join_command_target, initial_channels, ui_needs_update,
          nick, initial_nick, is_handling_nick_collision,
          last_attempted_nick_change, connection_state, last, run433, auto_retries,
          sasl_completed, sasl_result, cap_end_sent,
          transfers, transfer_ids_generated, pending_passive_offers, bound_ports,
          ports_in_use, dcc_config, now, cleanup_due, dcc_returned, cancelled,
          send_queues, queue_attempts, validator_accepts, config_errors,
          scrollback, scrollback_offset, ignore_list, pc, buffer, pending_signal,
          _processing_depth, command_stack, command_log,
          dcc_pc, _lock, _cleanup_timer, shutdown_returned, workers, dcc_log>>

chanVars == <<contexts, currently_joined_channels, active_context_name,
              last_join_command_target, initial_channels>>

nickVars == <<nick, initial_nick, is_handling_nick_collision,
              last_attempted_nick_change, connection_state, run433, auto_retries>>

saslVars == <<sasl_completed, sasl_result, cap_end_sent>>

sendVars == <<send_queues, queue_attempts>>

\* the threads of the DCC manager: the operations that run to their end on
\* one thread leave them alone
dccThreadVars == <<dcc_pc, _lock, _cleanup_timer, shutdown_returned, workers, dcc_log>>

dccVars == <<transfers, transfer_ids_generated, pending_passive_offers, bound_ports,
             ports_in_use, dcc_config, now, cleanup_due, dcc_returned, cancelled,
             sendVars, dccThreadVars>>

storeVars == <<validator_accepts, config_errors>>

windowVars == <<scrollback, scrollback_offset, ignore_list>>

\* the state of the threads: the handlers that run to their end on one thread
\* leave it alone
commandVars == <<_processing_depth, command_stack, command_log>>

threadVars == <<pc, buffer, pending_signal, commandVars>>

\* the threads that call add_message, and the main loop
Writers == {"network", "dcc_worker"}

Threads == Writers \cup {"ui"}

\* the threads before they run: the main loop is about to call _update_ui
InitThreads ==
    /\ pc = [t \in Threads |-> IF t = "ui" THEN [at |-> "check"]
                                ELSE [at |-> "idle", sent |-> 0]]
    /\ buffer = <<>>
    /\ pending_signal = FALSE
    /\ _processing_depth = 0
    /\ command_stack = <<>>
    /\ command_log = <<>>

\* the client state the DCC manager leaves alone
clientVars == <<contexts, currently_joined_channels, active_context_name,
                last_join_command_target, initial_channels, nick, initial_nick,
                is_handling_nick_collision, last_attempted_nick_change,
                connection_state, run433, auto_retries, saslVars, storeVars,
                windowVars, threadVars>>

\* what the handlers of the join-state machine and of the nick leave alone
otherVars == <<saslVars, dccVars, storeVars, windowVars, threadVars>>

-----------------------------------------------------------------------------
(* Strings *)

None == <<>>

\* str.lower() on one character
UpperToLower ==
    [c \in {"A", "B", "C", "D", "E", "F", "G", "H", "I", "J", "K", "L", "M",
            "N", "O", "P", "Q", "R", "S", "T", "U", "V", "W", "X", "Y", "Z"} |->
        CASE c = "A" -> "a" [] c = "B" -> "b" [] c = "C" -> "c" [] c = "D" -> "d"
          [] c = "E" -> "e" [] c = "F" -> "f" [] c = "G" -> "g" [] c = "H" -> "h"
          [] c = "I" -> "i" [] c = "J" -> "j" [] c = "K" -> "k" [] c = "L" -> "l"
          [] c = "M" -> "m" [] c = "N" -> "n" [] c = "O" -> "o" [] c = "P" -> "p"
          [] c = "Q" -> "q" [] c = "R" -> "r" [] c = "S" -> "s" [] c = "T" -> "t"
          [] c = "U" -> "u" [] c = "V" -> "v" [] c = "W" -> "w" [] c = "X" -> "x"
          [] c = "Y" -> "y" [] c = "Z" -> "z"]

LowerChar(c) == IF c \in DOMAIN UpperToLower THEN UpperToLower[c] ELSE c

\* str.lower()
Lower(s) == [i \in 1..Len(s) |-> LowerChar(s[i])]

\* a.lower() == b.lower()
EqIgnoreCase(a, b) == Lower(a) = Lower(b)

\* the nicks, channel names and other tokens of the model
bob        == <<"b", "o", "b">>
Bob        == <<"B", "o", "b">>
bob_       == <<"b", "o", "b", "_">>
bob1       == <<"b", "o", "b", "1">>
al9        == <<"a", "l", "9">>
zed        == <<"z", "e", "d">>
abcdefghi  == <<"a", "b", "c", "d", "e", "f", "g", "h", "i">>
star       == <<"*">>
equals     == <<"=">>
Status     == <<"S", "t", "a", "t", "u", "s">>
dcc_context == <<"D", "C", "C">>
al         == <<"a", "l">>
cha        == <<"#", "a">>
chA        == <<"#", "A">>
chb        == <<"#", "b">>

\* the spellings in which the server and the user name channels
ChanNames == {cha, chA, chb}

\* the nicks a configuration starts with
InitialNicks == {bob, abcdefghi}

\* the nicks the server confirms in 001
WelcomeNicks == {Bob, al9}

\* the nicks the user asks for with /nick
UserNicks == {zed, Bob}

\* the automatic NICK retries of one run
MaxAutoRetries == 3

-----------------------------------------------------------------------------
(* Context manager *)

\* ContextManager._normalize_context_name: channel names are case-folded
IsChannelName(name) == Len(name) > 0 /\ name[1] \in {"#", "&", "+", "!"}

FoldChar(c) ==
    CASE c = "[" -> "{" [] c = "]" -> "}" [] c = "\\" -> "|" [] c = "~" -> "^"
      [] OTHER -> LowerChar(c)

_normalize_context_name(name) ==
    IF IsChannelName(name) THEN [i \in 1..Len(name) |-> FoldChar(name[i])] ELSE name

CtxKeys ==
    {_normalize_context_name(n) : n \in ChanNames} \cup {Status, dcc_context, al, al9}

NoContext == [type |-> "none", join_status |-> "NONE"]

JoinStatuses == {"NOT_JOINED", "PENDING_INITIAL_JOIN", "JOIN_COMMAND_SENT",
                 "SELF_JOIN_RECEIVED", "FULLY_JOINED", "PARTED", "JOIN_FAILED"}

\* ContextManager.get_context: the context stored under the normalized name
HasContext(ctxs, name) ==
    /\ _normalize_context_name(name) \in DOMAIN ctxs
    /\ ctxs[_normalize_context_name(name)].type # "none"

get_context(ctxs, name) ==
    IF HasContext(ctxs, name) THEN ctxs[_normalize_context_name(name)] ELSE NoContext

\* ContextManager.create_context: no effect when the context exists
create_context(ctxs, name, type, initial_join_status) ==
    IF HasContext(ctxs, name) \/ _normalize_context_name(name) \notin DOMAIN ctxs
    THEN ctxs
    ELSE [ctxs EXCEPT ![_normalize_context_name(name)] =
             [type |-> type, join_status |-> initial_join_status]]

SetJoinStatus(ctxs, name, status) ==
    [ctxs EXCEPT ![_normalize_context_name(name)].join_status = status]

-----------------------------------------------------------------------------
(* What a handler emits *)

Line(cmd, arg) == [cmd |-> cmd, arg |-> arg]

Event(name, arg) == [name |-> name, arg |-> arg, state |-> connection_state]

Effects(op, code, params, before, sent, events, msgs) ==
    [op |-> op, code |-> code, params |-> params, before |-> before,
     sent |-> sent, events |-> events, msgs |-> msgs]

\* what a handler found: the join status of the context it was sent for, our
\* nick, the collision flag and the pending nick change
Before(name) ==
    [join_status |-> get_context(contexts, name).join_status,
     nick |-> nick,
     is_handling_nick_collision |-> is_handling_nick_collision,
     last_attempted_nick_change |-> last_attempted_nick_change,
     sasl_completed |-> sasl_completed]

\* _handle_numeric_command: the parameters equal to our nick are dropped
DisplayParams(params, current_nick) ==
    SelectSeq(params, LAMBDA p : ~EqIgnoreCase(p, current_nick))

\* _handle_numeric_command dispatches RAW_IRC_NUMERIC before the handler
RawNumeric(code) == Event("RAW_IRC_NUMERIC", None)

UnknownChannel == <<"U", "n", "k", "n", "o", "w", "n", " ",
                    "C", "h", "a", "n", "n", "e", "l">>
DefaultChannel == <<"c", "h", "a", "n", "n", "e", "l">>

-----------------------------------------------------------------------------
(* Client logic *)

\* IRCClient_Logic.handle_channel_fully_joined: the event, then the switch of
\* the active context to a channel the user joined or an auto-joined one
handle_channel_fully_joined(channel_name) ==
    LET normalized_channel_name == _normalize_context_name(channel_name)
        ev == <<Event("CHANNEL_FULLY_JOINED", normalized_channel_name)>>
    IN  IF /\ last_join_command_target # None
           /\ _normalize_context_name(last_join_command_target) = normalized_channel_name
        THEN [active |-> normalized_channel_name, target |-> None,
              ui |-> TRUE, events |-> ev]
        ELSE IF /\ active_context_name \in {None, Status}
                /\ normalized_channel_name \in
                      {_normalize_context_name(ch) : ch \in initial_channels}
        THEN [active |-> normalized_channel_name, target |-> last_join_command_target,
              ui |-> TRUE, events |-> ev]
        ELSE [active |-> active_context_name, target |-> last_join_command_target,
              ui |-> ui_needs_update, events |-> ev]

-----------------------------------------------------------------------------
(* Numeric handlers of the join-state machine *)

\* a names reply that forgets the joins the user asked for
NamesStartJoinOnlyInitial == {"PENDING_INITIAL_JOIN"}

\* an end of names that forgets the auto-join channels
EndOfNamesSkipsInitialJoin == {"SELF_JOIN_RECEIVED", "JOIN_COMMAND_SENT"}

\* an end of names that also completes a join the user has left
EndOfNamesCompletesParted ==
    {"SELF_JOIN_RECEIVED", "JOIN_COMMAND_SENT", "PENDING_INITIAL_JOIN", "PARTED"}

\* the join statuses that RPL_NAMREPLY moves to SELF_JOIN_RECEIVED
NamesStartJoin == {"PENDING_INITIAL_JOIN", "JOIN_COMMAND_SENT"}

\* the join statuses that RPL_ENDOFNAMES moves to FULLY_JOINED
EndOfNamesCompletesJoin ==
    {"SELF_JOIN_RECEIVED", "JOIN_COMMAND_SENT", "PENDING_INITIAL_JOIN"}

\* RPL_NAMREPLY (353)
_handle_rpl_namreply(params) ==
    LET display_params == DisplayParams(params, nick)
        channel_in_reply == IF Len(display_params) > 1 THEN display_params[2] ELSE None
        created == create_context(contexts, channel_in_reply, "channel", "NOT_JOINED")
        target_ctx_for_names == get_context(created, channel_in_reply)
    IN  /\ contexts' =
              IF channel_in_reply = None \/ target_ctx_for_names.type = "none"
              THEN contexts
              ELSE IF target_ctx_for_names.join_status \in NamesStartJoin
              THEN SetJoinStatus(created, channel_in_reply, "SELF_JOIN_RECEIVED")
              ELSE created
        /\ last' = Effects("353", 353, params, Before(channel_in_reply), <<>>, <<RawNumeric(353)>>, <<>>)
        /\ UNCHANGED <<currently_joined_channels, active_context_name,
                       last_join_command_target, initial_channels, ui_needs_update>>
        /\ UNCHANGED <<nickVars, otherVars>>

\* RPL_ENDOFNAMES (366)
_handle_rpl_endofnames(params) ==
    LET display_params == DisplayParams(params, nick)
        channel_ended == IF Len(display_params) > 0 THEN display_params[1]
                         ELSE UnknownChannel
        ctx_for_endofnames == get_context(contexts, channel_ended)
        joined == handle_channel_fully_joined(channel_ended)
    IN  /\ IF ctx_for_endofnames.type = "channel"
           THEN IF ctx_for_endofnames.join_status \in EndOfNamesCompletesJoin
                THEN /\ contexts' = SetJoinStatus(contexts, channel_ended, "FULLY_JOINED")
                     /\ currently_joined_channels' =
                            currently_joined_channels \cup {channel_ended}
                     /\ active_context_name' = joined.active
                     /\ last_join_command_target' = joined.target
                     /\ ui_needs_update' = joined.ui
                     /\ last' = Effects("366", 366, params, Before(channel_ended), <<>>,
                                        <<RawNumeric(366)>> \o joined.events, <<>>)
                ELSE IF ctx_for_endofnames.join_status = "NOT_JOINED"
                THEN /\ ui_needs_update' = TRUE
                     /\ last' = Effects("366", 366, params, Before(channel_ended), <<>>, <<RawNumeric(366)>>,
                                        <<_normalize_context_name(channel_ended)>>)
                     /\ UNCHANGED <<contexts, currently_joined_channels,
                                    active_context_name, last_join_command_target>>
                ELSE /\ last' = Effects("366", 366, params, Before(channel_ended), <<>>, <<RawNumeric(366)>>, <<>>)
                     /\ UNCHANGED <<contexts, currently_joined_channels,
                                    active_context_name, last_join_command_target,
                                    ui_needs_update>>
           ELSE /\ ui_needs_update' = TRUE
                /\ last' = Effects("366", 366, params, Before(channel_ended), <<>>, <<RawNumeric(366)>>, <<Status>>)
                /\ UNCHANGED <<contexts, currently_joined_channels,
                               active_context_name, last_join_command_target>>
        /\ UNCHANGED initial_channels
        /\ UNCHANGED <<nickVars, otherVars>>

\* what ERR_NOSUCHCHANNEL and the join-error group do to the state
JoinFailed(code, params) ==
    LET display_params == DisplayParams(params, nick)
        channel_name == IF Len(display_params) > 0 THEN display_params[1]
                        ELSE DefaultChannel
        failed_join_ctx == get_context(contexts, channel_name)
    IN  /\ contexts' = IF failed_join_ctx.type = "channel"
                       THEN SetJoinStatus(contexts, channel_name, "JOIN_FAILED")
                       ELSE contexts
        /\ currently_joined_channels' = currently_joined_channels \ {channel_name}
        /\ ui_needs_update' = TRUE
        /\ last' = Effects("join_error", code, params, Before(channel_name), <<>>, <<RawNumeric(code)>>, <<Status>>)
        /\ UNCHANGED <<active_context_name, last_join_command_target, initial_channels>>
        /\ UNCHANGED <<nickVars, otherVars>>

\* ERR_NOSUCHCHANNEL (403)
_handle_err_nosuchchannel(params) == JoinFailed(403, params)

\* ERR_CHANNELISFULL, ERR_INVITEONLYCHAN, ERR_BANNEDFROMCHAN, ERR_BADCHANNELKEY
_handle_err_channel_join_group(code, params) == JoinFailed(code, params)

-----------------------------------------------------------------------------
(* Commands *)

\* /join: the outbound JOIN of the spec's join-state machine
handle_join_command(channel) ==
    LET created == create_context(contexts, channel, "channel", "JOIN_COMMAND_SENT")
    IN  /\ get_context(created, channel).type = "channel"
        /\ contexts' = SetJoinStatus(created, channel, "JOIN_COMMAND_SENT")
        /\ last_join_command_target' = channel
        /\ last' = Effects("join", 0, <<channel>>, Before(channel), <<Line("JOIN", channel)>>, <<>>, <<>>)
        /\ UNCHANGED <<currently_joined_channels, active_context_name,
                       initial_channels, ui_needs_update>>
        /\ UNCHANGED <<nickVars, otherVars>>

\* /cyclechannel
handle_cyclechannel_command ==
    LET current_active_context_name ==
            IF active_context_name # None THEN active_context_name ELSE Status
        current_context == get_context(contexts, current_active_context_name)
        channel == current_active_context_name
    IN  /\ IF current_context.type # "channel"
           THEN last' = Effects("cyclechannel", 0, <<>>, Before(channel), <<>>, <<>>,
                                <<current_active_context_name>>)
           ELSE last' = Effects("cyclechannel", 0, <<>>, Before(channel),
                                <<Line("PART", channel), Line("JOIN", channel)>>,
                                <<>>, <<channel>>)
        /\ ui_needs_update' = TRUE
        /\ UNCHANGED chanVars
        /\ UNCHANGED <<nickVars, otherVars>>

-----------------------------------------------------------------------------
(* Nick collision (433) and welcome (001) *)

\* the IRC nick length the retry is cut to
MaxNickLen == 9

Digits == {"0", "1", "2", "3", "4", "5", "6", "7", "8", "9"}

\* int(c)
DigitValue(c) ==
    CASE c = "0" -> 0 [] c = "1" -> 1 [] c = "2" -> 2 [] c = "3" -> 3 [] c = "4" -> 4
      [] c = "5" -> 5 [] c = "6" -> 6 [] c = "7" -> 7 [] c = "8" -> 8 [] c = "9" -> 9

\* str(n) for the numbers 0 .. 10
Decimal(n) ==
    CASE n = 0 -> <<"0">> [] n = 1 -> <<"1">> [] n = 2 -> <<"2">> [] n = 3 -> <<"3">>
      [] n = 4 -> <<"4">> [] n = 5 -> <<"5">> [] n = 6 -> <<"6">> [] n = 7 -> <<"7">>
      [] n = 8 -> <<"8">> [] n = 9 -> <<"9">> [] n = 10 -> <<"1", "0">>

\* s[:-1]
Front(s) == SubSeq(s, 1, Len(s) - 1)

\* a retry that is never cut to the nick length
NoTruncate(s, n) == s

\* s[:n] when len(s) > n
Truncate(s, n) == IF Len(s) > n THEN SubSeq(s, 1, n) ELSE s

\* a retry that only ever appends an underscore
AlwaysUnderscore(current_nick_for_logic, initial_nick_for_logic) ==
    Truncate(Append(current_nick_for_logic, "_"), MaxNickLen)

\* new_try_nick of _handle_err_nicknameinuse
NextNickCandidate(current_nick_for_logic, initial_nick_for_logic) ==
    Truncate(
        IF EqIgnoreCase(current_nick_for_logic, initial_nick_for_logic)
        THEN Append(initial_nick_for_logic, "_")
        ELSE IF current_nick_for_logic[Len(current_nick_for_logic)] = "_"
        THEN Append(Front(current_nick_for_logic), "1")
        ELSE IF current_nick_for_logic[Len(current_nick_for_logic)] \in Digits
        THEN Front(current_nick_for_logic) \o
             Decimal(DigitValue(current_nick_for_logic[Len(current_nick_for_logic)]) + 1)
        ELSE Append(current_nick_for_logic, "_"),
        MaxNickLen)

BrokenRun == <<[params |-> <<>>, sent |-> <<>>, before |-> None, valid |-> FALSE]>>

\* the consecutive 433 replies since construction, at most three of them
RunAfter433(params, before, sent) ==
    IF run433 # BrokenRun /\ Len(run433) < 3
    THEN Append(run433, [params |-> params, sent |-> sent, before |-> before,
                         valid |-> TRUE])
    ELSE BrokenRun

\* StateManager.set("connection_info", conn_info) with the object that
\* get_connection_info returned and the handler changed: the validator runs
\* on the stored object itself; a rejection is noted in config_errors and
\* nothing is written, an acceptance writes the object that is already there
set_connection_info(errors) ==
    IF validator_accepts THEN errors ELSE errors \cup {"connection_info"}

\* ERR_NICKNAMEINUSE (433), as _handle_numeric_command hands it over
_handle_err_nicknameinuse(params) ==
    LET display_params == DisplayParams(params, nick)
        failed_nick == IF Len(display_params) > 0 THEN display_params[1] ELSE nick
        is_our_nick_colliding == nick # None /\ EqIgnoreCase(nick, failed_nick)
        new_try_nick == NextNickCandidate(nick, initial_nick)
        sent == IF /\ ~(/\ last_attempted_nick_change # None
                        /\ EqIgnoreCase(last_attempted_nick_change, failed_nick))
                   /\ is_our_nick_colliding
                   /\ ~is_handling_nick_collision
                THEN <<Line("NICK", new_try_nick)>> ELSE <<>>
    IN  /\ IF /\ last_attempted_nick_change # None
              /\ EqIgnoreCase(last_attempted_nick_change, failed_nick)
           THEN /\ last_attempted_nick_change' = None
                /\ config_errors' = set_connection_info(config_errors)
                /\ last' = Effects("433", 433, params, Before(None), <<>>,
                                   <<RawNumeric(433)>>, <<Status>>)
                /\ UNCHANGED <<nick, is_handling_nick_collision, auto_retries>>
           ELSE IF is_our_nick_colliding /\ ~is_handling_nick_collision
           THEN /\ auto_retries < MaxAutoRetries
                /\ is_handling_nick_collision' = TRUE
                /\ nick' = new_try_nick
                /\ config_errors' = set_connection_info(config_errors)
                /\ auto_retries' = auto_retries + 1
                /\ last' = Effects("433", 433, params, Before(None), sent,
                                   <<RawNumeric(433)>>, <<Status, Status>>)
                /\ UNCHANGED last_attempted_nick_change
           ELSE IF is_our_nick_colliding /\ is_handling_nick_collision
           THEN /\ is_handling_nick_collision' = FALSE
                /\ last' = Effects("433", 433, params, Before(None), <<>>,
                                   <<RawNumeric(433)>>, <<Status, Status>>)
                /\ UNCHANGED <<nick, last_attempted_nick_change, auto_retries,
                               config_errors>>
           ELSE /\ last' = Effects("433", 433, params, Before(None), <<>>,
                                   <<RawNumeric(433)>>, <<Status>>)
                /\ UNCHANGED <<nick, is_handling_nick_collision,
                               last_attempted_nick_change, auto_retries,
                               config_errors>>
        /\ run433' = RunAfter433(params, Before(None), sent)
        /\ ui_needs_update' = TRUE
        /\ UNCHANGED <<initial_nick, connection_state, validator_accepts>>
        /\ UNCHANGED <<chanVars, saslVars, dccVars, windowVars, threadVars>>

\* RegistrationHandler.on_welcome_received: the connection is registered
on_welcome_received(state) == "REGISTERED"

\* RPL_WELCOME (001)
_handle_rpl_welcome(params) ==
    LET confirmed_nick == IF Len(params) > 0 THEN params[1] ELSE nick
    IN  /\ nick' = IF nick # confirmed_nick THEN confirmed_nick ELSE nick
        /\ config_errors' = IF nick # confirmed_nick
                            THEN set_connection_info(config_errors)
                            ELSE config_errors
        /\ connection_state' = on_welcome_received(connection_state)
        /\ ui_needs_update' = TRUE
        /\ last' = Effects("001", 1, params, Before(None), <<>>,
                           <<RawNumeric(1), Event("CLIENT_REGISTERED", confirmed_nick)>>,
                           <<Status>>)
        /\ run433' = BrokenRun
        /\ UNCHANGED <<initial_nick, is_handling_nick_collision,
                       last_attempted_nick_change, auto_retries, validator_accepts>>
        /\ UNCHANGED <<chanVars, saslVars, dccVars, windowVars, threadVars>>

\* /nick: the user-initiated nick change that is in flight until answered
handle_nick_command(new_nick) ==
    /\ last_attempted_nick_change' = new_nick
    /\ last' = Effects("nick", 0, <<new_nick>>, Before(None),
                       <<Line("NICK", new_nick)>>, <<>>, <<>>)
    /\ run433' = BrokenRun
    /\ UNCHANGED <<nick, initial_nick, is_handling_nick_collision, connection_state,
                   auto_retries, ui_needs_update>>
    /\ UNCHANGED <<chanVars, otherVars>>

-----------------------------------------------------------------------------
(* SASL result numerics *)

\* client.sasl_authenticator is set once the SASL flow was started
HasSaslAuthenticator == ~sasl_completed \/ sasl_result # "none"

\* the SASL flow starts after CAP ACK sasl: AUTHENTICATE goes out and the
\* result is pending
start_authentication ==
    /\ ~HasSaslAuthenticator
    /\ ~cap_end_sent
    /\ sasl_completed' = FALSE
    /\ last' = Effects("authenticate", 0, <<>>, Before(None),
                       <<Line("AUTHENTICATE", <<"P", "L", "A", "I", "N">>)>>, <<>>, <<>>)
    /\ UNCHANGED <<sasl_result, cap_end_sent, ui_needs_update, run433>>
    /\ UNCHANGED <<dccVars, storeVars, windowVars, threadVars>>
    /\ UNCHANGED <<nick, initial_nick, is_handling_nick_collision,
                   last_attempted_nick_change, connection_state, auto_retries>>
    /\ UNCHANGED chanVars

\* SaslAuthenticator.on_sasl_result_received: the first result ends the flow
\* and lets the registration continue with CAP END
on_sasl_result_received(code, success) ==
    /\ IF sasl_completed
       THEN /\ last' = Effects("sasl", code, <<>>, Before(None), <<>>,
                               <<RawNumeric(code)>>, <<>>)
            /\ UNCHANGED saslVars
       ELSE /\ sasl_completed' = TRUE
            /\ sasl_result' = IF success THEN "success" ELSE "failure"
            /\ cap_end_sent' = TRUE
            /\ last' = Effects("sasl", code, <<>>, Before(None),
                               <<Line("CAP", <<"E", "N", "D">>)>>,
                               <<RawNumeric(code)>>, <<Status>>)
    /\ ui_needs_update' = TRUE

\* a SASL numeric that arrives while the client has no SASL authenticator
SaslAuthenticatorMissing(code) ==
    /\ last' = Effects("sasl", code, <<>>, Before(None), <<>>,
                       <<RawNumeric(code)>>, <<Status>>)
    /\ ui_needs_update' = TRUE
    /\ UNCHANGED saslVars

SaslFrame ==
    /\ run433' = BrokenRun
    /\ UNCHANGED <<dccVars, storeVars, windowVars, threadVars>>
    /\ UNCHANGED <<nick, initial_nick, is_handling_nick_collision,
                   last_attempted_nick_change, connection_state, auto_retries>>
    /\ UNCHANGED chanVars

\* RPL_LOGGEDIN (900), RPL_SASLSUCCESS (903)
_handle_sasl_loggedin_success(code) ==
    /\ IF HasSaslAuthenticator THEN on_sasl_result_received(code, TRUE)
       ELSE SaslAuthenticatorMissing(code)
    /\ SaslFrame

\* RPL_SASLMECHS (902 as the table has it), ERR_SASLMECHS (908): a message to
\* Status and nothing else
_handle_sasl_mechanisms(code) ==
    /\ last' = Effects("sasl", code, <<>>, Before(None), <<>>,
                       <<RawNumeric(code)>>, <<Status>>)
    /\ ui_needs_update' = TRUE
    /\ UNCHANGED saslVars
    /\ SaslFrame

\* ERR_SASLFAIL (904), ERR_SASLTOOLONG (905), ERR_SASLABORTED (906)
_handle_sasl_fail_errors(code) ==
    /\ IF HasSaslAuthenticator THEN on_sasl_result_received(code, FALSE)
       ELSE SaslAuthenticatorMissing(code)
    /\ SaslFrame

\* ERR_SASLALREADY (907)
_handle_err_saslalready ==
    /\ IF HasSaslAuthenticator THEN on_sasl_result_received(907, TRUE)
       ELSE SaslAuthenticatorMissing(907)
    /\ SaslFrame

-----------------------------------------------------------------------------
(* DCC manager: configuration, transfer table, passive offers *)

\* the transfers one run creates
MaxTransfers == 1

\* the clock stops here
MaxTime == 4

\* dcc_max_file_size of the configurations checked
max_file_size == 2

\* dcc_passive_mode_token_timeout, dcc_cleanup_interval_seconds and
\* dcc_transfer_max_age_seconds of the configurations checked
passive_mode_token_timeout == 1

cleanup_interval_seconds == 1

transfer_max_age_seconds == 1

\* the range _get_listening_socket falls back to
DefaultPortRangeStart == 1024

DefaultPortRangeEnd == 65535

\* a valid range of two ports and a range whose start is above its end
PortRanges == {[port_range_start |-> 5000, port_range_end |-> 5001,
                enabled |-> TRUE, resume_enabled |-> TRUE],
               [port_range_start |-> 5001, port_range_end |-> 5000,
                enabled |-> TRUE, resume_enabled |-> TRUE]}

PortsInUseChoices == {{}, {5000}, {5000, 5001}}

Tokens == {"tok42", "tok43"}

\* the files peers offer: a good one, one that resolves outside the download
\* directory, one that is too large
OfferedFiles == {[filename |-> "gift.bin", filesize |-> max_file_size],
                 [filename |-> "../../etc/passwd", filesize |-> max_file_size],
                 [filename |-> "big.iso", filesize |-> max_file_size + 1]}

OutsideDownloadDir == {"../../etc/passwd"}

LocalIp == "192.168.1.1"

TerminalStatuses == {"COMPLETED", "FAILED", "CANCELLED", "TIMED_OUT"}

\* end_time of a transfer that has not ended (None)
NoTime == 0

\* the files that wait in the send queues at one time
MaxQueued == 2

\* the ids of the transfers that are accepted and of the sends that follow
TransferIds == 1..(MaxTransfers + MaxQueued)

\* the peers we exchange files with
Peers == {"alice", "carol"}

\* the peer whose offers we accept
OfferingPeer == "alice"

NoTransfer ==
    [status |-> "NONE", transfer_type |-> "NONE", filename |-> "", filesize |-> 0,
     bytes_transferred |-> 0, end_time |-> NoTime, token |-> "", port |-> 0,
     peer_nick |-> "", checksum_status |-> "NotChecked"]

NoOffer == [filename |-> "", filesize |-> 0, timestamp |-> NoTime]

\* self.transfers.get(transfer_id)
HasTransfer(trs, transfer_id) ==
    transfer_id \in DOMAIN trs /\ trs[transfer_id].status # "NONE"

\* DCCReceiveTransfer(...): a new RECEIVE transfer, nothing received yet
DCCReceiveTransfer(filename, filesize, token, port) ==
    [status |-> "QUEUED", transfer_type |-> "RECEIVE", filename |-> filename,
     filesize |-> filesize, bytes_transferred |-> 0, end_time |-> NoTime,
     token |-> token, port |-> port, peer_nick |-> OfferingPeer,
     checksum_status |-> "Pending"]

\* dcc_security.validate_download_path: the path stays inside the download
\* directory and the file is not larger than dcc_max_file_size
validate_download_path(filename, filesize) ==
    filename \notin OutsideDownloadDir /\ filesize <= max_file_size

\* the event update_transfer_status dispatches for a status
StatusEventName(status) ==
    CASE status = "COMPLETED" -> "DCC_TRANSFER_COMPLETE"
      [] status \in {"FAILED", "TIMED_OUT"} -> "DCC_TRANSFER_ERROR"
      [] status = "CANCELLED" -> "DCC_TRANSFER_CANCELLED"
      [] status = "TRANSFERRING" -> "DCC_TRANSFER_START"
      [] OTHER -> ""

StatusEvents(transfer_id, status) ==
    IF StatusEventName(status) = "" THEN <<>>
    ELSE <<Event(StatusEventName(status), transfer_id)>>

\* DCCManager.update_transfer_status: the table after the call
update_transfer_status(trs, transfer_id, status) ==
    IF HasTransfer(trs, transfer_id)
    THEN [trs EXCEPT ![transfer_id].status = status]
    ELSE trs

\* DCCTransfer._report_status: the transfer notes when it ended and hands
\* the status to the manager
_report_status(trs, transfer_id, status) ==
    IF HasTransfer(trs, transfer_id) /\ status \in TerminalStatuses
    THEN [update_transfer_status(trs, transfer_id, status)
             EXCEPT ![transfer_id].end_time = now]
    ELSE update_transfer_status(trs, transfer_id, status)

RECURSIVE FirstFreePort(_, _)
\* the loop of _get_listening_socket: the first port of the range that can
\* be bound, 0 when there is none
FirstFreePort(port, port_end) ==
    IF port > port_end THEN 0
    ELSE IF port \notin ports_in_use \cup bound_ports THEN port
    ELSE FirstFreePort(port + 1, port_end)

\* a socket bound just above the configured range
PortAboveRange == dcc_config.port_range_end + 1

\* DCCManager._get_listening_socket: the bound port, 0 for None
_get_listening_socket ==
    IF dcc_config.port_range_start > dcc_config.port_range_end
    THEN FirstFreePort(DefaultPortRangeStart, DefaultPortRangeEnd)
    ELSE FirstFreePort(dcc_config.port_range_start, dcc_config.port_range_end)

\* dcc_protocol.format_dcc_accept_ctcp and IRCClient_Logic.send_ctcp_privmsg
DccAccept(filename, ip_str, port, position, token) ==
    Line("DCC ACCEPT", <<filename, ip_str, port, position, token>>)

DccFrame ==
    /\ UNCHANGED <<clientVars, dccThreadVars>>
    /\ UNCHANGED <<ports_in_use, dcc_config, now, cleanup_due, cancelled>>

\* DCCManager.accept_incoming_send_offer
accept_incoming_send_offer(original_filename, filesize) ==
    LET transfer_id == transfer_ids_generated + 1
    IN  /\ IF ~validate_download_path(original_filename, filesize)
           THEN /\ dcc_returned' = "failure"
                /\ last' = Effects("accept_incoming_send_offer", 0,
                                   <<original_filename, filesize>>, Before(None),
                                   <<>>, <<>>, <<>>)
                /\ UNCHANGED <<transfers, transfer_ids_generated, ui_needs_update>>
           ELSE /\ transfer_ids_generated < MaxTransfers
                /\ transfer_ids_generated' = transfer_id
                /\ transfers' =
                      _report_status(
                          [transfers EXCEPT ![transfer_id] =
                              DCCReceiveTransfer(original_filename, filesize, "", 0)],
                          transfer_id, "QUEUED")
                /\ dcc_returned' = "success"
                /\ ui_needs_update' = TRUE
                /\ last' = Effects("accept_incoming_send_offer", 0,
                                   <<original_filename, filesize>>, Before(None), <<>>,
                                   StatusEvents(transfer_id, "QUEUED") \o
                                       <<Event("DCC_TRANSFER_QUEUED", transfer_id)>>,
                                   <<"DCC", "DCC">>)
        /\ UNCHANGED <<pending_passive_offers, bound_ports, sendVars>>
        /\ DccFrame

\* DCCManager.initiate_passive_receive, called with the details of the offer
\* that accept_passive_offer_by_token took out of the table
initiate_passive_receive(offered_filename, offered_filesize, offer_token) ==
    LET transfer_id == transfer_ids_generated + 1
        local_listening_port == _get_listening_socket
    IN  IF ~validate_download_path(offered_filename, offered_filesize)
        THEN /\ dcc_returned' = "failure"
             /\ last' = Effects("accept_passive_offer_by_token", 0,
                                <<offered_filename, offered_filesize, offer_token>>,
                                Before(None), <<>>, <<>>, <<>>)
             /\ UNCHANGED <<transfers, transfer_ids_generated, bound_ports,
                            ui_needs_update>>
        ELSE IF local_listening_port = 0
        THEN /\ dcc_returned' = "failure"
             /\ ui_needs_update' = TRUE
             /\ last' = Effects("accept_passive_offer_by_token", 0,
                                <<offered_filename, offered_filesize, offer_token>>,
                                Before(None), <<>>, <<>>, <<"DCC">>)
             /\ UNCHANGED <<transfers, transfer_ids_generated, bound_ports>>
        ELSE /\ transfer_ids_generated < MaxTransfers
             /\ transfer_ids_generated' = transfer_id
             /\ bound_ports' = bound_ports \cup {local_listening_port}
             /\ transfers' =
                   _report_status(
                       [transfers EXCEPT ![transfer_id] =
                           DCCReceiveTransfer(offered_filename, offered_filesize,
                                              offer_token, local_listening_port)],
                       transfer_id, "NEGOTIATING")
             /\ dcc_returned' = "success"
             /\ ui_needs_update' = TRUE
             /\ last' = Effects("accept_passive_offer_by_token", 0,
                                <<offered_filename, offered_filesize, offer_token>>,
                                Before(None),
                                <<DccAccept(offered_filename, LocalIp,
                                            local_listening_port, 0, offer_token)>>,
                                StatusEvents(transfer_id, "NEGOTIATING") \o
                                    <<Event("DCC_TRANSFER_QUEUED", transfer_id)>>,
                                <<"DCC", "DCC">>)

\* DCCPassiveOfferManager.get_offer: the stored offer, None when there is none
get_offer(offer_token) == pending_passive_offers[offer_token]

\* DCCPassiveOfferManager.remove_offer
remove_offer(offers, offer_token) == [offers EXCEPT ![offer_token] = NoOffer]

\* DCCManager.accept_passive_offer_by_token
accept_passive_offer_by_token(offer_token) ==
    LET pending_offer_details == get_offer(offer_token)
    IN  /\ IF pending_offer_details = NoOffer
           THEN /\ dcc_returned' = "failure"
                /\ last' = Effects("accept_passive_offer_by_token", 0,
                                   <<"", 0, offer_token>>, Before(None),
                                   <<>>, <<>>, <<>>)
                /\ UNCHANGED <<transfers, transfer_ids_generated, bound_ports,
                               pending_passive_offers, ui_needs_update>>
           ELSE /\ pending_passive_offers' =
                      remove_offer(pending_passive_offers, offer_token)
                /\ initiate_passive_receive(pending_offer_details.filename,
                                            pending_offer_details.filesize,
                                            offer_token)
        /\ UNCHANGED sendVars
        /\ DccFrame

\* DCC CTCP handler: SEND with port 0 and a token registers a passive offer
store_offer(offer_token, file) ==
    /\ pending_passive_offers[offer_token] = NoOffer
    /\ pending_passive_offers' =
          [pending_passive_offers EXCEPT ![offer_token] =
              [filename |-> file.filename, filesize |-> file.filesize,
               timestamp |-> now]]
    /\ last' = Effects("store_offer", 0, <<file.filename, file.filesize, offer_token>>,
                       Before(None), <<>>,
                       <<Event("DCC_PASSIVE_OFFER_RECEIVED", offer_token)>>, <<"DCC">>)
    /\ ui_needs_update' = TRUE
    /\ UNCHANGED <<transfers, transfer_ids_generated, bound_ports, dcc_returned,
                   sendVars>>
    /\ DccFrame

\* time.monotonic() advances; the cleanup timer fires when it is due, so the
\* clock does not pass cleanup_due before _scheduled_cleanup_task has run
Tick ==
    /\ now < MaxTime
    /\ now < cleanup_due
    /\ now' = now + 1
    /\ last' = Effects("Tick", 0, <<>>, Before(None), <<>>, <<>>, <<>>)
    /\ UNCHANGED <<clientVars, dccThreadVars>>
    /\ UNCHANGED <<transfers, transfer_ids_generated, pending_passive_offers,
                   bound_ports, ports_in_use, dcc_config, cleanup_due, dcc_returned,
                   cancelled, ui_needs_update, sendVars>>

\* every finished transfer, whatever its age
IgnoringAge(transfer, max_age_seconds) ==
    transfer.status \in TerminalStatuses

\* _cleanup_finished_transfers: the test that marks a transfer for removal
MarkedForCleanup(transfer, max_age_seconds) ==
    /\ transfer.status \in TerminalStatuses
    /\ transfer.end_time # NoTime
    /\ now - transfer.end_time > max_age_seconds

\* DCCManager._cleanup_finished_transfers: the table after the run
_cleanup_finished_transfers(trs) ==
    [id \in DOMAIN trs |->
        IF MarkedForCleanup(trs[id], transfer_max_age_seconds)
        THEN NoTransfer ELSE trs[id]]

\* DCCManager._scheduled_cleanup_task: the timer fires, finished transfers
\* are cleaned up, the timer is started again
_scheduled_cleanup_task ==
    LET cleaned == {id \in TransferIds :
                       MarkedForCleanup(transfers[id], transfer_max_age_seconds)}
    IN  /\ now = cleanup_due
        /\ transfers' = _cleanup_finished_transfers(transfers)
        /\ cleanup_due' = now + cleanup_interval_seconds
        /\ ui_needs_update' = IF cleaned # {} THEN TRUE ELSE ui_needs_update
        /\ last' = Effects("_scheduled_cleanup_task", 0, <<>>, Before(None), <<>>,
                           <<>>, IF cleaned # {} THEN <<"DCC">> ELSE <<>>)
        /\ UNCHANGED <<clientVars, dccThreadVars>>
        /\ UNCHANGED <<transfer_ids_generated, pending_passive_offers, bound_ports,
                       ports_in_use, dcc_config, now, dcc_returned, cancelled,
                       sendVars>>

\* the statuses the thread of a transfer reports while it runs
ReportedStatuses == {"CONNECTING", "TRANSFERRING", "COMPLETED", "FAILED", "TIMED_OUT"}

\* the files we send, by name
fa == <<"f", "a">>
fA == <<"F", "A">>
fb == <<"f", "b">>

SentFiles == {fa, fb}

\* DCCSendTransfer(...): a new SEND transfer, nothing sent yet
DCCSendTransfer(peer_nick, filename, filesize, port) ==
    [status |-> "CONNECTING", transfer_type |-> "SEND", filename |-> filename,
     filesize |-> filesize, bytes_transferred |-> 0, end_time |-> NoTime,
     token |-> "", port |-> port, peer_nick |-> peer_nick,
     checksum_status |-> "Pending"]

\* dcc_protocol.format_dcc_send_ctcp and IRCClient_Logic.send_ctcp_privmsg
DccSend(peer_nick, filename, ip_str, port, filesize) ==
    Line("DCC SEND", <<peer_nick, filename, ip_str, port, filesize>>)

\* DCCSendManager._execute_send_operation: a listening socket is bound, the
\* transfer is created and the offer goes out; the table after the call
_execute_send_operation(trs, peer_nick, filename, filesize) ==
    IF _get_listening_socket = 0 THEN trs
    ELSE [trs EXCEPT ![transfer_ids_generated + 1] =
             DCCSendTransfer(peer_nick, filename, filesize, _get_listening_socket)]

\* the offer _execute_send_operation sends
SendOffer(peer_nick, filename, filesize) ==
    IF _get_listening_socket = 0 THEN <<>>
    ELSE <<DccSend(peer_nick, filename, LocalIp, _get_listening_socket, filesize)>>

\* a send to the peer has been started and has not ended
SendInFlight(trs, peer_nick) ==
    \E id \in TransferIds :
        /\ trs[id].transfer_type = "SEND"
        /\ trs[id].peer_nick = peer_nick
        /\ trs[id].status \notin TerminalStatuses

QueuedFiles == Len(send_queues["alice"]) + Len(send_queues["carol"])

\* DCCSendManager.initiate_sends for one file: the file is queued while a
\* send to the peer is in flight or files wait for it, and offered otherwise
initiate_sends(peer_nick, filename) ==
    /\ transfer_ids_generated + QueuedFiles < MaxTransfers + MaxQueued
    /\ IF SendInFlight(transfers, peer_nick) \/ send_queues[peer_nick] # <<>>
       THEN /\ QueuedFiles < MaxQueued
            /\ send_queues' = [send_queues EXCEPT ![peer_nick] = Append(@, filename)]
            /\ dcc_returned' = "queued"
            /\ last' = Effects("initiate_sends", 0, <<peer_nick, filename>>,
                               Before(None), <<>>, <<>>, <<"DCC">>)
            /\ UNCHANGED <<transfers, transfer_ids_generated, bound_ports>>
       ELSE /\ transfers' = _execute_send_operation(transfers, peer_nick, filename,
                                                    max_file_size)
            /\ transfer_ids_generated' =
                  IF _get_listening_socket = 0 THEN transfer_ids_generated
                  ELSE transfer_ids_generated + 1
            /\ bound_ports' = bound_ports \cup ({_get_listening_socket} \ {0})
            /\ dcc_returned' = IF _get_listening_socket = 0 THEN "failure" ELSE "success"
            /\ last' = Effects("initiate_sends", 0, <<peer_nick, filename>>,
                               Before(None),
                               SendOffer(peer_nick, filename, max_file_size),
                               <<>>, <<"DCC">>)
            /\ UNCHANGED send_queues
    /\ ui_needs_update' = TRUE
    /\ UNCHANGED <<pending_passive_offers, queue_attempts>>
    /\ DccFrame

\* the queue attempts counted for one transfer
MaxAttempts == 2

\* update_transfer_status goes on to _process_next_in_send_queue: the
\* transfer is a send and the status it is given is a final one
AdvancesQueue(transfer_id, status) ==
    /\ HasTransfer(transfers, transfer_id)
    /\ status \in TerminalStatuses
    /\ transfers[transfer_id].transfer_type = "SEND"

\* DCCSendManager.process_next_in_queue: the next file queued for the peer,
\* if there is one, is taken from the queue and offered
process_next_in_queue(trs, peer_nick) ==
    /\ IF send_queues[peer_nick] = <<>>
       THEN /\ transfers' = trs
            /\ UNCHANGED <<send_queues, transfer_ids_generated, bound_ports>>
       ELSE /\ transfers' = _execute_send_operation(trs, peer_nick,
                                                    Head(send_queues[peer_nick]),
                                                    max_file_size)
            /\ send_queues' = [send_queues EXCEPT ![peer_nick] = Tail(@)]
            /\ transfer_ids_generated' =
                  IF _get_listening_socket = 0 THEN transfer_ids_generated
                  ELSE transfer_ids_generated + 1
            /\ bound_ports' = bound_ports \cup ({_get_listening_socket} \ {0})

\* the offer process_next_in_queue sends
NextOffer(peer_nick) ==
    IF send_queues[peer_nick] = <<>> THEN <<>>
    ELSE SendOffer(peer_nick, Head(send_queues[peer_nick]), max_file_size)

\* the tail of DCCManager.update_transfer_status (and of every status a
\* transfer reports): the table with the new status and, for a send that
\* ended, the next file of the peer's queue
StatusReported(transfer_id, status) ==
    IF AdvancesQueue(transfer_id, status)
    THEN /\ queue_attempts[transfer_id] < MaxAttempts
         /\ process_next_in_queue(_report_status(transfers, transfer_id, status),
                                  transfers[transfer_id].peer_nick)
         /\ queue_attempts' = [queue_attempts EXCEPT ![transfer_id] = @ + 1]
    ELSE /\ transfers' = _report_status(transfers, transfer_id, status)
         /\ UNCHANGED <<send_queues, transfer_ids_generated, bound_ports,
                        queue_attempts>>

\* what a status report sends: the offer of the next queued file
StatusSent(transfer_id, status) ==
    IF AdvancesQueue(transfer_id, status)
    THEN NextOffer(transfers[transfer_id].peer_nick)
    ELSE <<>>

\* DCCTransfer.run: the thread of a transfer reports a status, which
\* DCCManager.update_transfer_status stores and announces
DCCTransfer_run(transfer_id, status) ==
    /\ HasTransfer(transfers, transfer_id)
    /\ StatusReported(transfer_id, status)
    /\ ui_needs_update' = TRUE
    /\ last' = Effects("update_transfer_status", 0, <<transfer_id, status>>,
                       Before(None), StatusSent(transfer_id, status),
                       StatusEvents(transfer_id, status), <<"DCC">>)
    /\ UNCHANGED <<pending_passive_offers, dcc_returned>>
    /\ DccFrame

\* the byte counts a progress report carries: nothing, a part, all of the
\* advertised size, and more than the sender advertised
ReportedBytes == 0..(max_file_size + 1)

\* DCCManager.update_transfer_progress
update_transfer_progress(transfer_id, bytes_transferred) ==
    /\ IF HasTransfer(transfers, transfer_id)
       THEN /\ transfers' =
                  [transfers EXCEPT ![transfer_id].bytes_transferred = bytes_transferred]
            /\ last' = Effects("update_transfer_progress", 0,
                               <<transfer_id, bytes_transferred>>, Before(None), <<>>,
                               <<Event("DCC_TRANSFER_PROGRESS", transfer_id)>>, <<>>)
       ELSE /\ last' = Effects("update_transfer_progress", 0,
                               <<transfer_id, bytes_transferred>>, Before(None), <<>>,
                               <<>>, <<>>)
            /\ UNCHANGED transfers
    /\ UNCHANGED <<transfer_ids_generated, pending_passive_offers, bound_ports,
                   dcc_returned, ui_needs_update, sendVars>>
    /\ DccFrame

\* DCCTransfer.stop_transfer: the transfer is told to stop and reports the
\* status it was stopped with
stop_transfer(transfer_id, status) == StatusReported(transfer_id, status)

\* DCCManager.cancel_transfer
cancel_transfer(transfer_id) ==
    /\ IF HasTransfer(transfers, transfer_id)
       THEN /\ stop_transfer(transfer_id, "CANCELLED")
            /\ dcc_returned' = "True"
            /\ cancelled' = cancelled \cup {transfer_id}
            /\ ui_needs_update' = TRUE
            /\ last' = Effects("cancel_transfer", 0, <<transfer_id>>, Before(None),
                               StatusSent(transfer_id, "CANCELLED"),
                               StatusEvents(transfer_id, "CANCELLED"), <<"DCC">>)
       ELSE /\ dcc_returned' = "False"
            /\ last' = Effects("cancel_transfer", 0, <<transfer_id>>, Before(None),
                               <<>>, <<>>, <<>>)
            /\ UNCHANGED <<transfers, cancelled, ui_needs_update, sendVars,
                           transfer_ids_generated, bound_ports>>
    /\ UNCHANGED <<clientVars, dccThreadVars>>
    /\ UNCHANGED <<pending_passive_offers, ports_in_use, dcc_config, now, cleanup_due>>

\* the results a checksum comparison ends with
ChecksumResults == {"Match", "Mismatch", "Error"}

\* a mismatch that fails the transfer
FailedOnMismatch(trs, transfer_id, checksum_status) ==
    [trs EXCEPT ![transfer_id].checksum_status = checksum_status,
                ![transfer_id].status =
                    IF checksum_status = "Mismatch" THEN "FAILED" ELSE @]

\* update_transfer_checksum_result: the table after the call
ChecksumRecorded(trs, transfer_id, checksum_status) ==
    [trs EXCEPT ![transfer_id].checksum_status = checksum_status]

\* DCCManager.update_transfer_checksum_result
update_transfer_checksum_result(transfer_id, checksum_status) ==
    /\ IF HasTransfer(transfers, transfer_id)
       THEN /\ transfers' = ChecksumRecorded(transfers, transfer_id, checksum_status)
            /\ ui_needs_update' = TRUE
            /\ last' = Effects("update_transfer_checksum_result", 0,
                               <<transfer_id, checksum_status>>, Before(None), <<>>,
                               <<Event("DCC_TRANSFER_CHECKSUM_VALIDATED",
                                       <<transfer_id, checksum_status>>)>>,
                               <<"DCC">>)
       ELSE /\ last' = Effects("update_transfer_checksum_result", 0,
                               <<transfer_id, checksum_status>>, Before(None), <<>>,
                               <<>>, <<>>)
            /\ UNCHANGED <<transfers, ui_needs_update>>
    /\ UNCHANGED <<transfer_ids_generated, pending_passive_offers, bound_ports,
                   dcc_returned, sendVars>>
    /\ DccFrame

\* str.startswith
startswith(str, prefix) ==
    Len(prefix) <= Len(str) /\ SubSeq(str, 1, Len(prefix)) = prefix

\* the ids _generate_transfer_id hands out (uuid4), as text: the later ones
\* begin alike, and like the name of a file we send
IdDigits == <<"1", "2", "3", "4", "5", "6", "7", "8", "9">>

TransferIdText(id) ==
    IF id = 1 THEN <<"a", IdDigits[id]>> ELSE <<"f", "a", IdDigits[id]>>

\* attempt_user_resume: the sends whose id begins with the identifier
possible_matches_by_id(identifier) ==
    {id \in TransferIds :
        /\ HasTransfer(transfers, id)
        /\ startswith(TransferIdText(id), identifier)
        /\ transfers[id].transfer_type = "SEND"}

\* attempt_user_resume: the sends whose file has the identifier as its name
possible_matches_by_filename(identifier) ==
    {id \in TransferIds :
        /\ HasTransfer(transfers, id)
        /\ transfers[id].transfer_type = "SEND"
        /\ Lower(transfers[id].filename) = Lower(identifier)}

\* attempt_user_resume: the transfer the identifier selects, as a set
\* that is empty when the call returns an error instead
resumable_transfer(identifier) ==
    IF Cardinality(possible_matches_by_id(identifier)) = 1
    THEN possible_matches_by_id(identifier)
    ELSE IF Cardinality(possible_matches_by_id(identifier)) > 1
    THEN {}
    ELSE IF Cardinality(possible_matches_by_filename(identifier)) = 1
    THEN possible_matches_by_filename(identifier)
    ELSE {}

\* a test that does not look at the progress
EndedTransfer(transfer) ==
    transfer.status \in {"FAILED", "CANCELLED", "TIMED_OUT"}

\* attempt_user_resume: the tests on the selected transfer
CanResume(transfer) ==
    /\ transfer.status \in {"FAILED", "CANCELLED", "TIMED_OUT"}
    /\ transfer.bytes_transferred > 0
    /\ transfer.bytes_transferred < transfer.filesize

\* DCCManager.attempt_user_resume
attempt_user_resume(identifier) ==
    /\ IF /\ dcc_config.enabled
          /\ dcc_config.resume_enabled
          /\ \E id \in resumable_transfer(identifier) : CanResume(transfers[id])
       THEN \E id \in resumable_transfer(identifier) :
               /\ transfer_ids_generated + QueuedFiles < MaxTransfers + MaxQueued
               /\ transfers' = _execute_send_operation(transfers, transfers[id].peer_nick,
                                                       transfers[id].filename,
                                                       transfers[id].filesize)
               /\ transfer_ids_generated' =
                     IF _get_listening_socket = 0 THEN transfer_ids_generated
                     ELSE transfer_ids_generated + 1
               /\ bound_ports' = bound_ports \cup ({_get_listening_socket} \ {0})
               /\ dcc_returned' =
                     IF _get_listening_socket = 0 THEN "failure" ELSE "success"
               /\ ui_needs_update' = TRUE
               /\ last' = Effects("attempt_user_resume", 0, <<identifier>>,
                                  Before(None),
                                  SendOffer(transfers[id].peer_nick,
                                            transfers[id].filename,
                                            transfers[id].filesize),
                                  <<>>, <<"DCC">>)
       ELSE /\ dcc_returned' = "failure"
            /\ last' = Effects("attempt_user_resume", 0, <<identifier>>, Before(None),
                               <<>>, <<>>, <<>>)
            /\ UNCHANGED <<transfers, transfer_ids_generated, bound_ports,
                           ui_needs_update>>
    /\ UNCHANGED <<pending_passive_offers, sendVars>>
    /\ DccFrame

-----------------------------------------------------------------------------
(* Windows: messages, scrollback and the ignore list *)

\* the lines a context keeps
max_history == 2

\* UIManager.msg_win_width
msg_win_width == 10

\* how far the user scrolls up
MaxOffset == 2

\* time.strftime("%H:%M:%S ")
timestamp == <<"1", "2", ":", "0", "0", ":", "0", "0", " ">>

\* str.split(" ")
split(str) ==
    LET parts[i \in 0..Len(str)] ==
            IF i = 0 THEN << <<>> >>
            ELSE LET before == parts[i - 1]
                 IN  IF str[i] = " " THEN Append(before, <<>>)
                     ELSE [before EXCEPT ![Len(before)] = Append(@, str[i])]
    IN  parts[Len(str)]

\* add_message, the wrapping loop: how many lines full_message makes
wrapped_lines(full_message, max_w) ==
    LET words == split(full_message)
        \* the lines appended and the length of current_line after i words
        loop[i \in 0..Len(words)] ==
            IF i = 0 THEN <<0, 0>>
            ELSE LET before == loop[i - 1]
                     lines == before[1]
                     current_line == before[2]
                     word == Len(words[i])
                 IN  IF current_line > 0 /\ current_line + word + 1 > max_w
                     THEN <<lines + 1, word>>
                     ELSE <<lines, current_line + (IF current_line > 0 THEN 1 ELSE 0)
                                   + word>>
        after == loop[Len(words)]
        lines == after[1] + (IF after[2] > 0 THEN 1 ELSE 0)
    IN  IF lines = 0 /\ Len(full_message) > 0 THEN 1 ELSE lines

\* a glob of the ignore list against an ident: a leading * matches any start
fnmatch(name, pattern) ==
    IF Len(pattern) > 0 /\ pattern[1] = "*"
    THEN /\ Len(pattern) - 1 <= Len(name)
         /\ SubSeq(name, Len(name) - Len(pattern) + 2, Len(name))
                = SubSeq(pattern, 2, Len(pattern))
    ELSE name = pattern

\* a configuration whose ignore list is never consulted
NothingIgnored(source_full_ident) == FALSE

\* AppConfig.is_source_ignored
is_source_ignored(source_full_ident) ==
    \E pattern \in ignore_list : fnmatch(Lower(source_full_ident), Lower(pattern))

\* the type add_message gives a context it has to create
NewContextType(target_context_name) ==
    IF IsChannelName(target_context_name) THEN "channel"
    ELSE IF /\ target_context_name # Status
            /\ target_context_name # dcc_context
            /\ \A i \in 1..Len(target_context_name) : target_context_name[i] # ":"
    THEN "query"
    ELSE "generic"

\* the context add_message writes to when it is given context_name
TargetContextName(context_name) ==
    IF context_name # None THEN context_name
    ELSE IF active_context_name # None THEN active_context_name
    ELSE Status

\* ContextManager.add_message_to_context, once per line: the oldest lines go
AddLines(lines, name, n) ==
    [lines EXCEPT ![_normalize_context_name(name)] =
        IF @ + n > max_history THEN max_history ELSE @ + n]

\* IRCClient_Logic.add_message, called as op
MessageAdded(op, text, prefix_time, context_name, source_full_ident, is_privmsg_or_notice) ==
    LET target_context_name == TargetContextName(context_name)
        key == _normalize_context_name(target_context_name)
        created ==
            IF HasContext(contexts, target_context_name) THEN contexts
            ELSE create_context(contexts, target_context_name,
                                NewContextType(target_context_name),
                                IF IsChannelName(target_context_name)
                                THEN "NOT_JOINED" ELSE "NONE")
        full_message ==
            IF prefix_time /\ ~startswith(text, SubSeq(timestamp, 1, Len(timestamp) - 1))
            THEN timestamp \o text ELSE text
        max_w == IF msg_win_width > 1 THEN msg_win_width - 1 ELSE 80
        num_lines_added_for_this_message == wrapped_lines(full_message, max_w)
    IN  IF /\ is_privmsg_or_notice
           /\ source_full_ident # None
           /\ is_source_ignored(source_full_ident)
        THEN /\ last' = Effects(op, 0, <<target_context_name, source_full_ident>>,
                                Before(None), <<>>, <<>>, <<>>)
             /\ UNCHANGED <<contexts, scrollback, scrollback_offset, ui_needs_update>>
        ELSE IF ~HasContext(created, target_context_name)
        THEN /\ contexts' = create_context(contexts, Status, "status", "NONE")
             /\ scrollback' = AddLines(scrollback, Status, 1)
             /\ ui_needs_update' = TRUE
             /\ last' = Effects(op, 0, <<target_context_name, source_full_ident>>,
                                Before(None), <<>>, <<>>, <<Status>>)
             /\ UNCHANGED scrollback_offset
        ELSE /\ contexts' = created
             /\ scrollback' = AddLines(scrollback, target_context_name,
                                       num_lines_added_for_this_message)
             /\ scrollback_offset' =
                    IF /\ target_context_name = active_context_name
                       /\ scrollback_offset[key] > 0
                    THEN [scrollback_offset EXCEPT
                             ![key] = @ + num_lines_added_for_this_message]
                    ELSE scrollback_offset
             /\ ui_needs_update' = TRUE
             /\ last' = Effects(op, 0, <<target_context_name, source_full_ident>>,
                                Before(None), <<>>,
                                <<Event("MESSAGE_ADDED_TO_CONTEXT", target_context_name)>>,
                                [i \in 1..num_lines_added_for_this_message |-> key])

\* what add_message and the switches leave alone
windowFrame == <<currently_joined_channels, last_join_command_target,
                 initial_channels, nickVars, saslVars, dccVars, storeVars, ignore_list,
                 threadVars>>

add_message(text, prefix_time, context_name, source_full_ident, is_privmsg_or_notice) ==
    /\ MessageAdded("add_message", text, prefix_time, context_name,
                    source_full_ident, is_privmsg_or_notice)
    /\ UNCHANGED <<active_context_name, windowFrame>>

\* the user scrolling the active window up by a line, or back to its end
scroll_messages(direction) ==
    LET key == _normalize_context_name(active_context_name)
    IN  /\ HasContext(contexts, active_context_name)
        /\ scrollback_offset' =
               [scrollback_offset EXCEPT
                   ![key] = IF direction = "up"
                            THEN (IF @ < scrollback[key] THEN @ + 1 ELSE @)
                            ELSE 0]
        /\ ui_needs_update' = TRUE
        /\ last' = Effects("scroll_messages", 0, <<>>, Before(None), <<>>, <<>>, <<>>)
        /\ UNCHANGED <<contexts, active_context_name, scrollback, windowFrame>>

\* str.upper()
UpperChar(c) ==
    IF \E u \in DOMAIN UpperToLower : UpperToLower[u] = c
    THEN CHOOSE u \in DOMAIN UpperToLower : UpperToLower[u] = c
    ELSE c

Upper(str) == [i \in 1..Len(str) |-> UpperChar(str[i])]

\* str.endswith
endswith(str, suffix) ==
    /\ Len(suffix) <= Len(str)
    /\ SubSeq(str, Len(str) - Len(suffix) + 1, Len(str)) = suffix

\* the CTCP delimiter \x01, one character
x01 == "x01"

\* IRCMessage.source_nick: the prefix up to the !
source_nick(prefix) ==
    IF \E i \in 1..Len(prefix) : prefix[i] = "!"
    THEN SubSeq(prefix, 1, (CHOOSE i \in 1..Len(prefix) :
                               /\ prefix[i] = "!"
                               /\ \A j \in 1..(i - 1) : prefix[j] # "!") - 1)
    ELSE prefix

\* the DCC commands parse_dcc_ctcp knows
DccCommands == {<<"S", "E", "N", "D">>, <<"A", "C", "C", "E", "P", "T">>,
                <<"R", "E", "S", "U", "M", "E">>}

\* parse_dcc_ctcp: DCC, then a command it knows
parse_dcc_ctcp(ctcp_payload) ==
    LET parts == split(ctcp_payload)
    IN  /\ Len(parts) >= 2
        /\ Upper(parts[1]) = <<"D", "C", "C">>
        /\ Upper(parts[2]) \in DccCommands

malformed_dcc_request == <<"m", "a", "l", "f", "o", "r", "m", "e", "d">>

\* DCCManager.handle_incoming_dcc_ctcp
handle_incoming_dcc_ctcp(nick_from_parser, userhost, ctcp_payload) ==
    IF ~dcc_config.enabled
    THEN /\ last' = Effects("handle_incoming_dcc_ctcp", 0, <<ctcp_payload>>,
                            Before(None), <<>>, <<>>, <<>>)
         /\ UNCHANGED <<contexts, scrollback, scrollback_offset, ui_needs_update>>
    ELSE IF ~parse_dcc_ctcp(ctcp_payload)
    THEN MessageAdded("handle_incoming_dcc_ctcp", malformed_dcc_request, TRUE,
                      Status, None, FALSE)
    ELSE \* DCCCTCPHandler.process_ctcp takes the request over
         /\ last' = Effects("process_ctcp", 0, <<ctcp_payload>>,
                            Before(None), <<>>, <<>>, <<>>)
         /\ UNCHANGED <<contexts, scrollback, scrollback_offset, ui_needs_update>>

\* the trailing is a CTCP request that begins with DCC
IsDccCtcp(command, trailing) ==
    /\ command \in {"PRIVMSG", "NOTICE"}
    /\ startswith(trailing, <<x01>>)
    /\ endswith(trailing, <<x01>>)
    /\ startswith(Upper(SubSeq(trailing, 2, Len(trailing) - 1)),
                  <<"D", "C", "C", " ">>)

\* irc_protocol.handle_server_message for a PRIVMSG or a NOTICE: the text goes
\* to the window of the channel, or to the query window of the sender
message_router(command, prefix, target, trailing) ==
    MessageAdded("irc_protocol.handle_server_message", trailing, TRUE,
                 IF IsChannelName(target) THEN target ELSE source_nick(prefix),
                 prefix, TRUE)

\* IRCClient_Logic.handle_server_message with a parsed PRIVMSG or NOTICE
handle_server_message(command, prefix, target, trailing) ==
    /\ command \in {"PRIVMSG", "NOTICE"}
    /\ IF IsDccCtcp(command, trailing)
       THEN handle_incoming_dcc_ctcp(source_nick(prefix), prefix,
                                     SubSeq(trailing, 2, Len(trailing) - 1))
       ELSE message_router(command, prefix, target, trailing)
    /\ UNCHANGED <<active_context_name, windowFrame>>

-----------------------------------------------------------------------------
(* Windows: switching the active context *)

\* the characters of the model in the order of their code points
Ascii == <<" ", "!", "#", "&", "*", "+", "-",
           "0", "1", "2", "3", "4", "5", "6", "7", "8", "9", ":", "=", "@",
           "A", "B", "C", "D", "E", "F", "G", "H", "I", "J", "K", "L", "M",
           "N", "O", "P", "Q", "R", "S", "T", "U", "V", "W", "X", "Y", "Z",
           "[", "\\", "]", "^", "_",
           "a", "b", "c", "d", "e", "f", "g", "h", "i", "j", "k", "l", "m",
           "n", "o", "p", "q", "r", "s", "t", "u", "v", "w", "x", "y", "z",
           "{", "|", "}", "~">>

CodePoints ==
    [c \in {Ascii[i] : i \in 1..Len(Ascii)} |-> CHOOSE i \in 1..Len(Ascii) : Ascii[i] = c]

ord(c) == CodePoints[c]

\* a < b on strings
StrLess(a, b) ==
    \E i \in 1..(Len(b)) :
        /\ \A j \in 1..(i - 1) : j <= Len(a) /\ a[j] = b[j]
        /\ \/ i > Len(a)
           \/ i <= Len(a) /\ ord(a[i]) < ord(b[i])

\* how many context names come before a name when the case is ignored
LowerRank ==
    [name \in CtxKeys |->
        Cardinality({other \in CtxKeys : StrLess(Lower(other), Lower(name))})]

\* sorted(names, key=lambda x: x.lower()) for context names, which differ
\* beyond their case
sort_lower(names) ==
    [i \in 1..Cardinality(names) |->
        CHOOSE name \in names :
            Cardinality({other \in names : LowerRank[other] < LowerRank[name]}) = i - 1]

\* ContextManager.get_all_context_names
get_all_context_names(ctxs) == {name \in DOMAIN ctxs : ctxs[name].type # "none"}

\* an order that puts DCC next to Status
DccSecond(ctxs) ==
    LET context_names == get_all_context_names(ctxs)
    IN  (IF Status \in context_names THEN <<Status>> ELSE <<>>)
        \o (IF dcc_context \in context_names THEN <<dcc_context>> ELSE <<>>)
        \o sort_lower(context_names \ {Status, dcc_context})

\* switch_active_context: Status, the other contexts sorted, DCC
sorted_context_names(ctxs) ==
    LET context_names == get_all_context_names(ctxs)
        regular_contexts == sort_lower(context_names \ {Status, dcc_context})
    IN  (IF Status \in context_names THEN <<Status>> ELSE <<>>)
        \o regular_contexts
        \o (IF dcc_context \in context_names THEN <<dcc_context>> ELSE <<>>)

\* list.index
index(seq, x) == CHOOSE i \in 1..Len(seq) : seq[i] = x /\ \A j \in 1..(i - 1) : seq[j] # x

InSeq(seq, x) == \E i \in 1..Len(seq) : seq[i] = x

\* a in b on strings
str_in(a, b) == \E i \in 0..(Len(b) - Len(a)) : SubSeq(b, i + 1, i + Len(a)) = a

\* int(direction) succeeds: digits after an optional sign
IsInt(str) ==
    LET digits == IF Len(str) > 0 /\ str[1] \in {"+", "-"} THEN Tail(str) ELSE str
    IN  Len(digits) > 0 /\ \A i \in 1..Len(digits) : digits[i] \in Digits

\* int(direction)
int(str) ==
    LET digits == IF str[1] \in {"+", "-"} THEN Tail(str) ELSE str
        value[i \in 0..Len(digits)] ==
            IF i = 0 THEN 0 ELSE 10 * value[i - 1] + (ord(digits[i]) - ord("0"))
    IN  IF str[1] = "-" THEN 0 - value[Len(digits)] ELSE value[Len(digits)]

dir_next == <<"n", "e", "x", "t">>
dir_prev == <<"p", "r", "e", "v">>

Selected(name) == [new_active_context_name |-> name, error |-> None]
Refused(text)  == [new_active_context_name |-> None, error |-> text]

invalid_window_number == <<"n", "u", "m", "b", "e", "r">>
ambiguous_window_name == <<"a", "m", "b", "i", "g", "u", "o", "u", "s">>
window_not_found      == <<"n", "o", "t", " ", "f", "o", "u", "n", "d">>

\* switch_active_context up to the call of set_active_context: the context it
\* selects, or the error it reports; active is a context name or None
SwitchTarget(ctxs, active, direction) ==
    LET names == sorted_context_names(ctxs)
        num_contexts == Len(names)
        current_idx == IF active # None /\ InSeq(names, active)
                       THEN index(names, active) - 1 ELSE 0
        found_ctx == {name \in get_all_context_names(ctxs) :
                         str_in(Lower(direction), Lower(name))}
        exact_match_case_insensitive ==
            {name \in get_all_context_names(ctxs) : Lower(direction) = Lower(name)}
    IN  IF num_contexts = 0 THEN Selected(None)
        ELSE IF direction = dir_next
        THEN Selected(names[((current_idx + 1) % num_contexts) + 1])
        ELSE IF direction = dir_prev
        THEN Selected(names[((current_idx - 1 + num_contexts) % num_contexts) + 1])
        ELSE IF InSeq(names, direction) THEN Selected(direction)
        ELSE IF IsInt(direction)
        THEN IF 0 <= int(direction) - 1 /\ int(direction) - 1 < num_contexts
             THEN Selected(names[int(direction)])
             ELSE Refused(invalid_window_number)
        ELSE IF Cardinality(found_ctx) = 1
        THEN Selected(CHOOSE name \in found_ctx : TRUE)
        ELSE IF Cardinality(found_ctx) > 1 THEN Refused(ambiguous_window_name)
        ELSE IF Cardinality(exact_match_case_insensitive) = 1
        THEN Selected(CHOOSE name \in exact_match_case_insensitive : TRUE)
        ELSE Refused(window_not_found)

\* the context an error of switch_active_context is reported in
CurrentActiveName(ctxs, active) ==
    IF active # None /\ InSeq(sorted_context_names(ctxs), active) THEN active
    ELSE sorted_context_names(ctxs)[1]

\* IRCClient_Logic.switch_active_context
switch_active_context(direction) ==
    LET target == SwitchTarget(contexts, active_context_name, direction)
    IN  /\ IF target.error # None
           THEN /\ MessageAdded("switch_active_context", target.error, TRUE,
                                CurrentActiveName(contexts, active_context_name),
                                None, FALSE)
                /\ UNCHANGED active_context_name
           ELSE IF target.new_active_context_name # None
           THEN /\ active_context_name' = target.new_active_context_name
                /\ ui_needs_update' = TRUE
                /\ last' = Effects("switch_active_context", 0, <<direction>>,
                                   Before(None), <<>>, <<>>, <<>>)
                /\ UNCHANGED <<contexts, scrollback, scrollback_offset>>
           ELSE /\ last' = Effects("switch_active_context", 0, <<direction>>,
                                   Before(None), <<>>, <<>>, <<>>)
                /\ UNCHANGED <<contexts, scrollback, scrollback_offset,
                               active_context_name, ui_needs_update>>
        /\ UNCHANGED windowFrame

\* a cycle that takes the query windows in
WithQueries(ctxs) ==
    sort_lower({name \in get_all_context_names(ctxs) :
                   ctxs[name].type \in {"channel", "query"}})
    \o (IF Status \in get_all_context_names(ctxs) THEN <<Status>> ELSE <<>>)

\* switch_active_channel: the channels sorted, then Status
cyclable_contexts(ctxs) ==
    sort_lower({name \in get_all_context_names(ctxs) : ctxs[name].type = "channel"})
    \o (IF Status \in get_all_context_names(ctxs) THEN <<Status>> ELSE <<>>)

\* switch_active_channel up to the call of set_active_context
ChannelTarget(ctxs, active, direction) ==
    LET cyclable == cyclable_contexts(ctxs)
        num_cyclable == Len(cyclable)
        current_idx == IF active # None /\ InSeq(cyclable, active)
                       THEN index(cyclable, active) - 1 ELSE 0 - 1
    IN  IF num_cyclable = 0 THEN None
        ELSE IF current_idx = 0 - 1 THEN cyclable[1]
        ELSE IF direction = dir_next THEN cyclable[((current_idx + 1) % num_cyclable) + 1]
        ELSE IF direction = dir_prev
        THEN cyclable[((current_idx - 1 + num_cyclable) % num_cyclable) + 1]
        ELSE None

no_channels == <<"n", "o", " ", "c", "h", "a", "n", "n", "e", "l", "s">>

\* IRCClient_Logic.switch_active_channel
switch_active_channel(direction) ==
    LET new_active_channel_name_to_set ==
            ChannelTarget(contexts, active_context_name, direction)
    IN  /\ IF Len(cyclable_contexts(contexts)) = 0
           THEN /\ MessageAdded("switch_active_channel", no_channels, TRUE,
                                IF active_context_name # None
                                THEN active_context_name ELSE Status, None, FALSE)
                /\ UNCHANGED active_context_name
           ELSE IF new_active_channel_name_to_set # None
           THEN /\ active_context_name' = new_active_channel_name_to_set
                /\ ui_needs_update' = TRUE
                /\ last' = Effects("switch_active_channel", 0, <<direction>>,
                                   Before(None), <<>>, <<>>, <<>>)
                /\ UNCHANGED <<contexts, scrollback, scrollback_offset>>
           ELSE /\ last' = Effects("switch_active_channel", 0, <<direction>>,
                                   Before(None), <<>>, <<>>, <<>>)
                /\ UNCHANGED <<contexts, scrollback, scrollback_offset,
                               active_context_name, ui_needs_update>>
        /\ UNCHANGED windowFrame

-----------------------------------------------------------------------------
(* State after construction *)

NoEffects ==
    Effects("init", 0, <<>>, [join_status |-> "NONE", nick |-> None,
                              is_handling_nick_collision |-> FALSE,
                              last_attempted_nick_change |-> None,
                              sasl_completed |-> FALSE],
            <<>>, <<>>, <<>>)

\* IRCClient_Logic._create_initial_state: Status, then one context per
\* auto-join channel with PENDING_INITIAL_JOIN; Status is active
InitialContexts(channels) ==
    [k \in CtxKeys |->
        IF k = Status THEN [type |-> "status", join_status |-> "NONE"]
        ELSE IF k \in {_normalize_context_name(ch) : ch \in channels}
        THEN [type |-> "channel", join_status |-> "PENDING_INITIAL_JOIN"]
        ELSE NoContext]

\* the state of the client apart from its contexts
InitClientState(first_nick, channels) ==
    /\ InitThreads
    /\ config_errors = {}
    /\ scrollback = [k \in CtxKeys |-> 0]
    /\ scrollback_offset = [k \in CtxKeys |-> 0]
    /\ initial_channels = channels
    /\ currently_joined_channels = {}
    /\ active_context_name = Status
    /\ last_join_command_target = None
    /\ ui_needs_update = FALSE
    /\ nick = first_nick
    /\ initial_nick = first_nick
    /\ is_handling_nick_collision = FALSE
    /\ last_attempted_nick_change = None
    /\ connection_state = "CONNECTED"
    /\ last = NoEffects
    /\ run433 = <<>>
    /\ auto_retries = 0
    /\ sasl_completed = TRUE
    /\ sasl_result = "none"
    /\ cap_end_sent = FALSE

InitClient(first_nick, channels) ==
    /\ contexts = InitialContexts(channels)
    /\ InitClientState(first_nick, channels)

InitWith(first_nick, channels) ==
    /\ InitClient(first_nick, channels)
    /\ validator_accepts = TRUE
    /\ ignore_list = {}

\* the threads that call the DCC manager: the input loop, a script or
\* trigger, the cleanup timer
Callers == {"ui", "script"}

DccThreads == Callers \cup {"timer"}

\* DCCManager.__init__: the lock is free, the cleanup timer is started, no
\* thread is inside the manager
InitDccThreads ==
    /\ dcc_pc = [t \in DccThreads |-> [at |-> "idle", calls |-> 0, returned |-> "none"]]
    /\ _lock = ""
    /\ _cleanup_timer = "waiting"
    /\ shutdown_returned = FALSE
    /\ workers = {}
    /\ dcc_log = [id \in TransferIds |-> <<>>]

\* DCCManager.__init__: no transfers, no offers, the cleanup timer started
InitDcc(config, in_use) ==
    /\ transfers = [id \in TransferIds |-> NoTransfer]
    /\ transfer_ids_generated = 0
    /\ pending_passive_offers = [t \in Tokens |-> NoOffer]
    /\ bound_ports = {}
    /\ ports_in_use = in_use
    /\ dcc_config = config
    /\ now = 1
    /\ cleanup_due = 1 + cleanup_interval_seconds
    /\ dcc_returned = "none"
    /\ cancelled = {}
    /\ send_queues = [p \in Peers |-> <<>>]
    /\ queue_attempts = [id \in TransferIds |-> 0]
    /\ InitDccThreads

DefaultDccConfig == [port_range_start |-> DefaultPortRangeStart,
                     port_range_end |-> DefaultPortRangeEnd,
                     enabled |-> TRUE, resume_enabled |-> TRUE]

\* the auto-join lists of the configurations checked
InitialChannelLists == {{}, {chA}, {cha, chb}}

InitChannels ==
    /\ \E channels \in InitialChannelLists : InitWith(bob, channels)
    /\ InitDcc(DefaultDccConfig, {})

\* the numerics as the server sends them: the target is our nick
Numerics(names) ==
    \/ \E ch \in names : _handle_rpl_namreply(<<nick, equals, ch>>)
    \/ \E ch \in names : _handle_rpl_endofnames(<<nick, ch>>)
    \/ \E ch \in names : _handle_err_nosuchchannel(<<nick, ch>>)
    \/ \E ch \in names, code \in {471, 473, 474, 475} :
          _handle_err_channel_join_group(code, <<nick, ch>>)

NumericsNext == Numerics(ChanNames)

\* one channel in its two spellings, the user joining and cycling it
InitOneChannel ==
    /\ \E channels \in {{}, {chA}} : InitWith(bob, channels)
    /\ InitDcc(DefaultDccConfig, {})

ChannelNext ==
    \/ Numerics({cha, chA})
    \/ \E ch \in {cha, chA} : handle_join_command(ch)
    \/ handle_cyclechannel_command

InitNick ==
    /\ \E first_nick \in InitialNicks : InitWith(first_nick, {})
    /\ InitDcc(DefaultDccConfig, {})

\* the nick a 433 reports as in use: ours, the one the user asked for, another
FailingNicks == {nick, zed} \cup ({last_attempted_nick_change} \ {None})

\* a 433 without target, with the target * of an unregistered client, and
\* with our nick as target
NickNext ==
    \/ \E f \in FailingNicks : _handle_err_nicknameinuse(<<f>>)
    \/ \E f \in FailingNicks : _handle_err_nicknameinuse(<<star, f>>)
    \/ \E f \in FailingNicks : _handle_err_nicknameinuse(<<nick, f>>)
    \/ \E n \in WelcomeNicks \cup {nick} : _handle_rpl_welcome(<<n>>)
    \/ \E n \in UserNicks : handle_nick_command(n)

SpecNumerics == InitChannels /\ [][NumericsNext]_vars

SpecChannel == InitOneChannel /\ [][ChannelNext]_vars

SpecNick == InitNick /\ [][NickNext]_vars

\* the registration phase: SASL, its result numerics, 433 and 001
InitSasl == InitWith(bob, {}) /\ InitDcc(DefaultDccConfig, {})

SaslNext ==
    \/ start_authentication
    \/ \E code \in {900, 903} : _handle_sasl_loggedin_success(code)
    \/ \E code \in {902, 908} : _handle_sasl_mechanisms(code)
    \/ \E code \in {904, 905, 906} : _handle_sasl_fail_errors(code)
    \/ _handle_err_saslalready
    \/ \E f \in FailingNicks : _handle_err_nicknameinuse(<<star, f>>)
    \/ \E f \in FailingNicks : _handle_err_nicknameinuse(<<f>>)
    \/ \E n \in WelcomeNicks \cup {nick} : _handle_rpl_welcome(<<n>>)

SpecSasl == InitSasl /\ [][SaslNext]_vars

\* accepting offers: the configurations differ in the port range and in the
\* ports other processes hold
InitDccAccept ==
    /\ InitWith(bob, {})
    /\ \E config \in PortRanges, in_use \in PortsInUseChoices : InitDcc(config, in_use)

DccAcceptNext ==
    \/ \E file \in OfferedFiles :
          accept_incoming_send_offer(file.filename, file.filesize)
    \/ \E t \in Tokens, file \in OfferedFiles : store_offer(t, file)
    \/ \E t \in Tokens : accept_passive_offer_by_token(t)

SpecDccAccept == InitDccAccept /\ [][DccAcceptNext]_vars

\* the manager over time, with a valid port range and no port taken
InitDccTimed ==
    /\ InitWith(bob, {})
    /\ InitDcc([port_range_start |-> 5000, port_range_end |-> 5001,
                enabled |-> TRUE, resume_enabled |-> TRUE], {})

GoodFile == [filename |-> "gift.bin", filesize |-> max_file_size]

\* passive offers arrive and are accepted while the cleanup timer fires
DccOffersNext ==
    \/ Tick
    \/ _scheduled_cleanup_task
    \/ \E t \in Tokens : store_offer(t, GoodFile)
    \/ \E t \in Tokens : accept_passive_offer_by_token(t)

SpecDccOffers == InitDccTimed /\ [][DccOffersNext]_vars

\* transfers are accepted, their threads report, the cleanup timer fires
DccCleanupNext ==
    \/ Tick
    \/ _scheduled_cleanup_task
    \/ accept_incoming_send_offer(GoodFile.filename, GoodFile.filesize)
    \/ \E id \in TransferIds, status \in ReportedStatuses : DCCTransfer_run(id, status)

SpecDccCleanup == InitDccTimed /\ [][DccCleanupNext]_vars

\* one transfer after the other is accepted; its thread reports status and
\* progress, the user cancels
DccTransferNext ==
    \/ accept_incoming_send_offer(GoodFile.filename, GoodFile.filesize)
    \/ \E id \in TransferIds, status \in ReportedStatuses : DCCTransfer_run(id, status)
    \/ \E id \in TransferIds, bytes \in ReportedBytes : update_transfer_progress(id, bytes)
    \/ \E id \in TransferIds : cancel_transfer(id)

SpecDccTransfer == InitDccTimed /\ [][DccTransferNext]_vars

\* files are sent to two peers and queue up behind the send in flight; an
\* offer is accepted, the threads report, the user cancels
FinalReports == {"COMPLETED", "FAILED"}

DccSendNext ==
    \/ \E p \in Peers, f \in SentFiles : initiate_sends(p, f)
    \/ accept_incoming_send_offer(GoodFile.filename, GoodFile.filesize)
    \/ \E id \in TransferIds, status \in FinalReports : DCCTransfer_run(id, status)
    \/ \E id \in TransferIds : cancel_transfer(id)

InitDccSend == InitWith(bob, {}) /\ InitDcc(DefaultDccConfig, {})

SpecDccSend == InitDccSend /\ [][DccSendNext]_vars

\* received files are verified: the threads report their status and the
\* result of the checksum comparison
DccChecksumNext ==
    \/ accept_incoming_send_offer(GoodFile.filename, GoodFile.filesize)
    \/ \E id \in TransferIds, status \in ReportedStatuses : DCCTransfer_run(id, status)
    \/ \E id \in TransferIds, result \in ChecksumResults :
          update_transfer_checksum_result(id, result)

SpecDccChecksum == InitDccTimed /\ [][DccChecksumNext]_vars

\* the sends one run starts or resumes
MaxSends == 2

\* what the user types after /dcc resume: nothing, the beginning of an id,
\* a whole id, the name of a file in either spelling, something else
ResumeIdentifiers == {<<>>, <<"a">>, fa, fA}

\* how a send ends: completed, failed, or stopped by the user
ResumeReports == {"COMPLETED", "FAILED", "CANCELLED"}

\* the thread of the transfer is running
Running(id) ==
    HasTransfer(transfers, id) /\ transfers[id].status \notin TerminalStatuses

InitDccResume ==
    /\ InitWith(bob, {})
    /\ \E resume \in BOOLEAN :
          InitDcc([DefaultDccConfig EXCEPT !.resume_enabled = resume], {})

\* files are sent to one peer; a send makes progress and completes, fails
\* or is cancelled, and the user asks to resume
DccResumeNext ==
    \/ \E f \in {fa, fA} :
          /\ transfer_ids_generated + QueuedFiles < MaxSends
          /\ initiate_sends(OfferingPeer, f)
    \/ /\ transfer_ids_generated = 0
       /\ accept_incoming_send_offer(GoodFile.filename, GoodFile.filesize)
    \/ \E id \in TransferIds, status \in ResumeReports :
          Running(id) /\ DCCTransfer_run(id, status)
    \/ \E id \in TransferIds, bytes \in {1, max_file_size} :
          /\ Running(id)
          /\ bytes > transfers[id].bytes_transferred
          /\ update_transfer_progress(id, bytes)
    \/ \E identifier \in ResumeIdentifiers :
          /\ attempt_user_resume(identifier)
          /\ transfer_ids_generated' <= MaxSends

SpecDccResume == InitDccResume /\ [][DccResumeNext]_vars

-----------------------------------------------------------------------------
(* Claims about the join-state machine *)

\* the channel or nick a numeric reports: its last parameter
Named(params) == params[Len(params)]

EventCount(name, arg) ==
    Cardinality({i \in 1..Len(last.events) :
                    last.events[i].name = name /\ last.events[i].arg = arg})

\* C1: every name in currently_joined_channels denotes a channel context
\* whose join_status is FULLY_JOINED, whatever numerics 353, 366, 403, 471,
\* 473, 474 and 475 have arrived and however the server spelled the channel.
C1_JoinedAreFullyJoined ==
    \A name \in currently_joined_channels :
        /\ get_context(contexts, name).type = "channel"
        /\ get_context(contexts, name).join_status = "FULLY_JOINED"

\* C2: a 366 for a channel whose join is in progress makes it FULLY_JOINED,
\* adds it to currently_joined_channels and fires CHANNEL_FULLY_JOINED
\* exactly once for that channel.
C2_EndOfNamesCompletesJoin ==
    (/\ last.op = "366"
     /\ last.before.join_status \in
            {"PENDING_INITIAL_JOIN", "JOIN_COMMAND_SENT", "SELF_JOIN_RECEIVED"})
    => /\ get_context(contexts, Named(last.params)).join_status = "FULLY_JOINED"
       /\ Named(last.params) \in currently_joined_channels
       /\ EventCount("CHANNEL_FULLY_JOINED",
                     _normalize_context_name(Named(last.params))) = 1
       /\ \A i \in 1..Len(last.events) :
             last.events[i].name = "CHANNEL_FULLY_JOINED"
             => last.events[i].arg = _normalize_context_name(Named(last.params))

C2_Witness ==
    /\ last.op = "366"
    /\ last.before.join_status = "SELF_JOIN_RECEIVED"
    /\ Named(last.params) = chA
    /\ contexts[cha].join_status = "FULLY_JOINED"

\* C3: a 353 naming a channel whose join_status is PENDING_INITIAL_JOIN or
\* JOIN_COMMAND_SENT makes that join_status SELF_JOIN_RECEIVED.
C3_NamesReplyStartsJoin ==
    (/\ last.op = "353"
     /\ last.before.join_status \in {"PENDING_INITIAL_JOIN", "JOIN_COMMAND_SENT"})
    => get_context(contexts, Named(last.params)).join_status = "SELF_JOIN_RECEIVED"

C3_Witness ==
    /\ last.op = "353"
    /\ last.before.join_status = "JOIN_COMMAND_SENT"
    /\ get_context(contexts, Named(last.params)).join_status = "SELF_JOIN_RECEIVED"

\* C4: after 403, 471, 473, 474 or 475 naming a channel, that channel's
\* context has join_status JOIN_FAILED and the channel is not a member of
\* currently_joined_channels.
C4_JoinErrorFailsAndRemoves ==
    (last.op = "join_error")
    => /\ get_context(contexts, Named(last.params)).type = "channel"
          => get_context(contexts, Named(last.params)).join_status = "JOIN_FAILED"
       /\ \A name \in currently_joined_channels :
             _normalize_context_name(name) #
                 _normalize_context_name(Named(last.params))

\* C5: every outbound JOIN for a channel leaves that channel's join_status
\* JOIN_COMMAND_SENT, the JOIN of /cyclechannel included.
C5_OutboundJoinSetsStatus ==
    \A i \in 1..Len(last.sent) :
        last.sent[i].cmd = "JOIN"
        => get_context(contexts, last.sent[i].arg).join_status = "JOIN_COMMAND_SENT"

-----------------------------------------------------------------------------
(* Claims about the nick collision *)

Retry(n) == <<Line("NICK", n)>>

\* the scenario: initial nick bob, then 433 bob and 433 bob_ with nothing between
Scenario2 ==
    /\ run433 # BrokenRun
    /\ Len(run433) >= 2
    /\ initial_nick = bob
    /\ run433[1].params = <<bob>>
    /\ run433[2].params = <<bob_>>

CollisionOfOurNick ==
    /\ last.op = "433"
    /\ EqIgnoreCase(Named(last.params), last.before.nick)
    /\ last.before.last_attempted_nick_change = None

\* C7: a 433 for our nick, with no user-initiated change in flight and no
\* collision being handled, sends NICK with the next candidate and records
\* it as our nick, whatever the target parameter of the reply is.
C7_CollisionSendsRetry ==
    (CollisionOfOurNick /\ ~last.before.is_handling_nick_collision)
    => /\ last.sent = Retry(NextNickCandidate(last.before.nick, initial_nick))
       /\ nick = NextNickCandidate(last.before.nick, initial_nick)

\* C8: while is_handling_nick_collision is set, a further 433 for our nick
\* sends no NICK, leaves the stored nick and clears the flag.
C8_OnlyOneRetry ==
    (CollisionOfOurNick /\ last.before.is_handling_nick_collision)
    => /\ last.sent = <<>>
       /\ nick = last.before.nick
       /\ ~is_handling_nick_collision

\* the candidate as C9 states it: current + '_' when current is the initial
\* nick in any letter case
StatedCandidate(current, initial) ==
    LET final == current[Len(current)]
        next == IF EqIgnoreCase(current, initial) THEN current \o <<"_">>
                ELSE IF final = "_" THEN SubSeq(current, 1, Len(current) - 1) \o <<"1">>
                ELSE IF final \in Digits
                THEN SubSeq(current, 1, Len(current) - 1) \o Decimal(DigitValue(final) + 1)
                ELSE current \o <<"_">>
    IN  SubSeq(next, 1, IF Len(next) < 9 THEN Len(next) ELSE 9)

\* the candidate as the handler builds it: the initial nick + '_' in the
\* first case
AmendedCandidate(current, initial) ==
    LET final == current[Len(current)]
        next == IF EqIgnoreCase(current, initial) THEN initial \o <<"_">>
                ELSE IF final = "_" THEN SubSeq(current, 1, Len(current) - 1) \o <<"1">>
                ELSE IF final \in Digits
                THEN SubSeq(current, 1, Len(current) - 1) \o Decimal(DigitValue(final) + 1)
                ELSE current \o <<"_">>
    IN  SubSeq(next, 1, IF Len(next) < 9 THEN Len(next) ELSE 9)

\* C9 as stated: the nick of an automatic retry is current + '_' when
\* current equals the initial nick ignoring case, else '_' replaced by '1',
\* else the final digit incremented, else current + '_'; cut to 9 characters.
C9_CandidateFromCurrent ==
    (last.op = "433" /\ last.sent # <<>>)
    => last.sent = Retry(StatedCandidate(last.before.nick, initial_nick))

\* C9 as amended: as stated, but the first case yields the initial nick + '_'
\* (the initial nick as configured, not the current spelling).
C9_CandidateFromInitial ==
    (last.op = "433" /\ last.sent # <<>>)
    => last.sent = Retry(AmendedCandidate(last.before.nick, initial_nick))

C9_Witness ==
    /\ last.op = "433"
    /\ initial_nick = bob
    /\ last.before.nick = Bob
    /\ last.sent = Retry(bob_)

\* C10: a 433 for the pending user-initiated nick sends no NICK, leaves the
\* stored nick and the collision flag and resets last_attempted_nick_change;
\* a 433 for a nick that is neither ours nor the pending one sends nothing
\* and changes nothing.
C10_UserNickChangeNotRetried ==
    /\ (/\ last.op = "433"
        /\ last.before.last_attempted_nick_change # None
        /\ EqIgnoreCase(Named(last.params), last.before.last_attempted_nick_change))
       => /\ last.sent = <<>>
          /\ nick = last.before.nick
          /\ is_handling_nick_collision = last.before.is_handling_nick_collision
          /\ last_attempted_nick_change = None
    /\ (/\ last.op = "433"
        /\ ~EqIgnoreCase(Named(last.params), last.before.nick)
        /\ \/ last.before.last_attempted_nick_change = None
           \/ ~EqIgnoreCase(Named(last.params), last.before.last_attempted_nick_change))
       => /\ last.sent = <<>>
          /\ nick = last.before.nick
          /\ is_handling_nick_collision = last.before.is_handling_nick_collision
          /\ last_attempted_nick_change = last.before.last_attempted_nick_change

-----------------------------------------------------------------------------
(* Claims about the registration *)

\* C11: while SASL is pending, each of 902, 903, 904, 905, 906, 907 and 908
\* ends it with the right outcome (903, 907 success, the others failure) and
\* lets the registration continue with CAP END.
C11_SaslResultEndsSasl ==
    (/\ last.op = "sasl"
     /\ last.code \in {902, 903, 904, 905, 906, 907, 908}
     /\ ~last.before.sasl_completed)
    => /\ sasl_completed
       /\ cap_end_sent
       /\ sasl_result = IF last.code \in {903, 907} THEN "success" ELSE "failure"

\* C12: after 001 our nick is the confirmed one, the connection state is
\* REGISTERED, and the one CLIENT_REGISTERED event was dispatched in state
\* REGISTERED.
C12_RegisteredThenEvent ==
    (last.op = "001")
    => /\ nick = last.params[1]
       /\ connection_state = "REGISTERED"
       /\ EventCount("CLIENT_REGISTERED", last.params[1]) = 1
       /\ \A i \in 1..Len(last.events) :
             last.events[i].name = "CLIENT_REGISTERED"
             => last.events[i].state = "REGISTERED"

-----------------------------------------------------------------------------
(* Claims about accepting DCC offers *)

\* the step accepts an offer whose destination path fails validation
RefusedAccept ==
    /\ last'.op \in {"accept_incoming_send_offer", "accept_passive_offer_by_token"}
    /\ last'.params[1] # ""
    /\ ~validate_download_path(last'.params[1], last'.params[2])

\* C13: an accept whose destination path fails validation adds no transfer,
\* opens no socket, sends no CTCP and emits DCC_TRANSFER_ERROR.
C13_RefusalEmitsError ==
    [][RefusedAccept
       => /\ transfers' = transfers
          /\ bound_ports' = bound_ports
          /\ last'.sent = <<>>
          /\ \E i \in 1..Len(last'.events) :
                last'.events[i].name = "DCC_TRANSFER_ERROR"]_vars

\* the step accepts the stored passive offer of a token, and its path is valid
PassiveAccept(offer_token) ==
    /\ last'.op = "accept_passive_offer_by_token"
    /\ last'.params[3] = offer_token
    /\ pending_passive_offers[offer_token] # NoOffer
    /\ validate_download_path(pending_passive_offers[offer_token].filename,
                              pending_passive_offers[offer_token].filesize)

\* the ports between lo and hi that nobody holds before the step
Bindable(lo, hi, port) ==
    lo <= port /\ port <= hi /\ port \notin ports_in_use \cup bound_ports

AllTaken(lo, hi) ==
    Cardinality({port \in ports_in_use \cup bound_ports : lo <= port /\ port <= hi})
        >= hi - lo + 1

\* what the step does when it accepts the passive offer with ports lo..hi
PassiveAcceptIn(offer_token, lo, hi) ==
    LET offer == pending_passive_offers[offer_token]
        id == transfer_ids_generated'
    IN  IF AllTaken(lo, hi)
        THEN /\ last'.sent = <<>>
             /\ transfers' = transfers
             /\ bound_ports' = bound_ports
        ELSE \E port \in bound_ports' :
                /\ Bindable(lo, hi, port)
                /\ bound_ports' = bound_ports \cup {port}
                /\ ~HasTransfer(transfers, id)
                /\ \A other \in TransferIds \ {id} :
                       transfers'[other] = transfers[other]
                /\ transfers'[id].status = "NEGOTIATING"
                /\ transfers'[id].transfer_type = "RECEIVE"
                /\ transfers'[id].filename = offer.filename
                /\ transfers'[id].filesize = offer.filesize
                /\ transfers'[id].bytes_transferred = 0
                /\ transfers'[id].token = offer_token
                /\ transfers'[id].port = port
                /\ last'.sent = <<[cmd |-> "DCC ACCEPT",
                                   arg |-> <<offer.filename, LocalIp, port, 0,
                                             offer_token>>]>>

-----------------------------------------------------------------------------
(* Claims about the DCC cleanup loop *)

\* C15: no passive offer can be looked up by its token once
\* passive_mode_token_timeout plus one cleanup interval have passed since
\* the offer was received
C15_StaleOffersGone ==
    \A t \in Tokens :
        get_offer(t) # NoOffer =>
            now <= get_offer(t).timestamp + passive_mode_token_timeout
                       + cleanup_interval_seconds

\* a cleanup run has just finished
CleanupRan == last'.op = "_scheduled_cleanup_task"

\* a transfer the statement lets the cleanup remove: finished, and ended
\* more than transfer_max_age_seconds ago
OldFinished(transfer) ==
    /\ transfer.status \in {"COMPLETED", "FAILED", "CANCELLED", "TIMED_OUT"}
    /\ transfer.end_time > 0
    /\ now - transfer.end_time > transfer_max_age_seconds

\* C16: a cleanup run removes exactly the transfers that are finished
\* (COMPLETED, FAILED, CANCELLED, TIMED_OUT) and ended more than
\* transfer_max_age_seconds ago; it leaves every other transfer as it was
C16_CleanupRemovesOldFinished ==
    [][CleanupRan =>
          \A id \in TransferIds :
              /\ OldFinished(transfers[id]) => ~HasTransfer(transfers', id)
              /\ ~OldFinished(transfers[id]) => transfers'[id] = transfers[id]]_vars

\* a cleanup run has removed a transfer
C16_Witness ==
    /\ last.op = "_scheduled_cleanup_task"
    /\ last.msgs = <<"DCC">>
    /\ transfer_ids_generated > 0
    /\ \E id \in 1..transfer_ids_generated : ~HasTransfer(transfers, id)

-----------------------------------------------------------------------------
(* Claims about the transfer table *)

\* C17: after every update_transfer_progress call the byte count of every
\* transfer lies between 0 and its file size and is not below what it was
\* before the call
C17_BytesBoundedAndMonotonic ==
    [][last'.op = "update_transfer_progress" =>
          \A id \in TransferIds :
              HasTransfer(transfers', id) =>
                  /\ 0 <= transfers'[id].bytes_transferred
                  /\ transfers'[id].bytes_transferred <= transfers'[id].filesize
                  /\ transfers'[id].bytes_transferred >= transfers[id].bytes_transferred]_vars

\* C18: a transfer whose status is COMPLETED has received or sent its whole
\* file: bytes_transferred equals filesize
C18_CompletedIsWhole ==
    \A id \in TransferIds :
        transfers[id].status = "COMPLETED" =>
            transfers[id].bytes_transferred = transfers[id].filesize

\* C19: cancel_transfer for an id in the table returns true and leaves the
\* transfer CANCELLED, and it stays CANCELLED whatever is reported later;
\* for an id not in the table it returns false and changes nothing
C19_CancelIsFinal ==
    [][/\ \A id \in TransferIds :
              last'.op = "cancel_transfer" /\ last'.params = <<id>> =>
                  IF HasTransfer(transfers, id)
                  THEN dcc_returned' = "True" /\ transfers'[id].status = "CANCELLED"
                  ELSE dcc_returned' = "False" /\ transfers' = transfers
       /\ \A id \in cancelled' :
              HasTransfer(transfers', id) => transfers'[id].status = "CANCELLED"]_vars

\* the events that announce a terminal status
TerminalEvents == {"DCC_TRANSFER_COMPLETE", "DCC_TRANSFER_ERROR", "DCC_TRANSFER_CANCELLED"}

\* C20: once a transfer is COMPLETED, FAILED, CANCELLED or TIMED_OUT, no
\* update_transfer_status and no cancel_transfer changes its status, and no
\* second terminal event is emitted for it
C20_TerminalIsAbsorbing ==
    [][\A id \in TransferIds :
          /\ transfers[id].status \in {"COMPLETED", "FAILED", "CANCELLED", "TIMED_OUT"}
          /\ last'.op \in {"update_transfer_status", "cancel_transfer"}
          /\ last'.params[1] = id
          => /\ transfers'[id].status = transfers[id].status
             /\ \A i \in 1..Len(last'.events) :
                    last'.events[i].name \notin TerminalEvents]_vars

-----------------------------------------------------------------------------
(* Claims about the send queue, checksums and resume *)

\* the sends to a peer that have started and have not ended
SendsInFlight(peer_nick) ==
    {id \in TransferIds : /\ transfers[id].transfer_type = "SEND"
                          /\ transfers[id].peer_nick = peer_nick
                          /\ transfers[id].status \in {"CONNECTING", "TRANSFERRING"}}

\* C21: the end of a send (COMPLETED, FAILED, CANCELLED, TIMED_OUT) makes
\* the manager try the peer's queue exactly once, the end of a receive does
\* not make it try, and so the files sent to one peer are in flight one at
\* a time
C21_OneQueueAttemptPerSend ==
    /\ \A id \in TransferIds :
          /\ transfers[id].transfer_type = "SEND" => queue_attempts[id] <= 1
          /\ transfers[id].transfer_type = "SEND"
                /\ transfers[id].status \in {"COMPLETED", "FAILED", "CANCELLED", "TIMED_OUT"}
                => queue_attempts[id] = 1
          /\ transfers[id].transfer_type = "RECEIVE" => queue_attempts[id] = 0
    /\ \A p \in Peers : Cardinality(SendsInFlight(p)) <= 1

\* C22: recording the checksum result Mismatch for a COMPLETED transfer
\* sets its checksum_status to Mismatch and publishes one
\* DCC_TRANSFER_CHECKSUM_VALIDATED; the status stays COMPLETED, the transfer
\* stays in the table and nothing else in the table changes
C22_MismatchKeepsCompleted ==
    [][\A id \in TransferIds :
          /\ last'.op = "update_transfer_checksum_result"
          /\ last'.params = <<id, "Mismatch">>
          /\ transfers[id].status = "COMPLETED"
          => /\ transfers'[id].checksum_status = "Mismatch"
             /\ transfers'[id].status = "COMPLETED"
             /\ HasTransfer(transfers', id)
             /\ transfers' = [transfers EXCEPT ![id].checksum_status = "Mismatch"]
             /\ Len(last'.events) = 1
             /\ last'.events[1].name = "DCC_TRANSFER_CHECKSUM_VALIDATED"
             /\ last'.events[1].arg = <<id, "Mismatch">>]_vars

\* a mismatch has been recorded for a completed transfer
C22_Witness ==
    /\ last.op = "update_transfer_checksum_result"
    /\ \E id \in TransferIds :
          /\ last.params = <<id, "Mismatch">>
          /\ transfers[id].status = "COMPLETED"
          /\ transfers[id].checksum_status = "Mismatch"

\* the sends in the table before the step
OutgoingSends ==
    {id \in TransferIds : transfers[id].transfer_type = "SEND"}

\* the one send the identifier stands for: the only one whose id begins
\* with it, or, when no id begins with it, the only one whose file has that
\* name in any letter case; none when the identifier is ambiguous
SelectedSend(identifier) ==
    LET by_id == {id \in OutgoingSends :
                     /\ Len(identifier) <= Len(TransferIdText(id))
                     /\ \A i \in 1..Len(identifier) :
                           TransferIdText(id)[i] = identifier[i]}
        by_name == {id \in OutgoingSends :
                       /\ Len(transfers[id].filename) = Len(identifier)
                       /\ \A i \in 1..Len(identifier) :
                             LowerChar(transfers[id].filename[i]) =
                                 LowerChar(identifier[i])}
    IN  IF by_id # {} THEN (IF Cardinality(by_id) = 1 THEN by_id ELSE {})
        ELSE IF Cardinality(by_name) = 1 THEN by_name ELSE {}

\* the step is attempt_user_resume and it started a new send
ResumeStarted ==
    /\ last'.op = "attempt_user_resume"
    /\ \/ transfers' # transfers
       \/ last'.sent # <<>>
       \/ dcc_returned' = "success"

\* C23: attempt_user_resume starts a new send only when resume is enabled
\* and the identifier selects exactly one outgoing send that is FAILED,
\* CANCELLED or TIMED_OUT with 0 < bytes_transferred < filesize; in every
\* other case it returns an error, creates no transfer and sends no offer
C23_ResumeOnlyPartialFailedSend ==
    [][last'.op = "attempt_user_resume" =>
          LET identifier == last'.params[1]
              resumable ==
                  /\ dcc_config.resume_enabled
                  /\ \E id \in SelectedSend(identifier) :
                        /\ transfers[id].status \in {"FAILED", "CANCELLED", "TIMED_OUT"}
                        /\ 0 < transfers[id].bytes_transferred
                        /\ transfers[id].bytes_transferred < transfers[id].filesize
          IN  /\ ResumeStarted => resumable
              /\ ~resumable => /\ dcc_returned' = "failure"
                               /\ transfers' = transfers
                               /\ transfer_ids_generated' = transfer_ids_generated
                               /\ last'.sent = <<>>]_vars

\* a resume by file name has started a new send of that file
C23_Witness ==
    /\ last.op = "attempt_user_resume"
    /\ last.params = <<fA>>
    /\ dcc_returned = "success"
    /\ last.sent # <<>>
    /\ transfer_ids_generated = 2
    /\ transfers[1].status \in {"FAILED", "CANCELLED", "TIMED_OUT"}
    /\ transfers[2].status = "CONNECTING"
    /\ transfers[2].filename = transfers[1].filename

-----------------------------------------------------------------------------
(* The state store under the handlers that write the nick *)

\* the ConnectionInfo that get_connection_info returns
ConnectionInfo == <<nick, currently_joined_channels, last_attempted_nick_change>>

\* the validator accepts or rejects what the handlers store
InitStore ==
    /\ \E first_nick \in InitialNicks : InitClient(first_nick, {})
    /\ validator_accepts \in BOOLEAN
    /\ ignore_list = {}
    /\ InitDcc(DefaultDccConfig, {})

StoreNext ==
    \/ \E f \in {nick, zed} : _handle_err_nicknameinuse(<<f>>)
    \/ \E f \in {nick, zed} : _handle_err_nicknameinuse(<<star, f>>)
    \/ \E n \in WelcomeNicks \cup {nick} : _handle_rpl_welcome(<<n>>)

SpecStore == InitStore /\ [][StoreNext]_vars

-----------------------------------------------------------------------------
(* The windows under messages and switches *)

\* _create_initial_state with the DCC window of a configuration with DCC
InitialWindows(channels, others, dcc_enabled) ==
    [k \in CtxKeys |->
        IF k = dcc_context
        THEN (IF dcc_enabled THEN [type |-> "dcc_transfers", join_status |-> "NONE"]
              ELSE NoContext)
        ELSE IF k \in others THEN [type |-> "query", join_status |-> "NONE"]
        ELSE InitialContexts(channels)[k]]

al_ident  == <<"a", "l", "!", "u", "@", "h">>
al9_ident == <<"a", "l", "9", "!", "u", "@", "x">>
Senders   == {al_ident, al9_ident}

\* the ignore lists of the configurations
IgnoreLists == {{}, {<<"*", "@", "X">>}}

hi == <<"h", "i">>
Texts == {<<>>, hi}

\* what a peer sends: text, a CTCP request, DCC requests in two letter cases,
\* one of them without a command, and one without the closing delimiter
Trailings == {hi,
              <<x01, "V", x01>>,
              <<x01, "d", "c", "c", " ", "S", "E", "N", "D", x01>>,
              <<x01, "D", "C", "C", " ", x01>>,
              <<x01, "D", "C", "C", " ", "S", "E", "N", "D">>}

InitMessages ==
    /\ \E dcc_enabled \in BOOLEAN :
           /\ InitDcc([DefaultDccConfig EXCEPT !.enabled = dcc_enabled], {})
           /\ contexts = InitialWindows({cha}, {}, dcc_enabled)
    /\ InitClientState(bob, {cha})
    /\ validator_accepts = TRUE
    /\ ignore_list \in IgnoreLists

MessagesNext ==
    \/ \E text \in Texts, prefix_time \in BOOLEAN, context_name \in {None, chA} :
           /\ add_message(text, prefix_time, context_name, None, FALSE)
           /\ \A k \in CtxKeys : scrollback_offset'[k] <= MaxOffset
    \/ \E source_full_ident \in Senders :
           add_message(hi, FALSE, al, source_full_ident, TRUE)
    \/ \E command \in {"PRIVMSG", "NOTICE"}, trailing \in Trailings :
           /\ handle_server_message(command, al9_ident, chA, trailing)
           /\ \A k \in CtxKeys : scrollback_offset'[k] <= MaxOffset
    \/ \E direction \in {"up", "end"} : scroll_messages(direction)
    \/ switch_active_channel(dir_next)

SpecMessages == InitMessages /\ [][MessagesNext]_vars

\* the windows of a session: Status, channels, queries and, with DCC, DCC
InitSwitch ==
    /\ \E dcc_enabled \in BOOLEAN, channels \in {{}, {cha, chb}},
          others \in {{}, {al, al9}} :
           /\ InitDcc([DefaultDccConfig EXCEPT !.enabled = dcc_enabled], {})
           /\ contexts = InitialWindows(channels, others, dcc_enabled)
           /\ InitClientState(bob, channels)
    /\ validator_accepts = TRUE
    /\ ignore_list = {}

\* what the user gives /window: a direction, a name as it is stored, a name in
\* another letter case, a part of a name, a number, something else
SwitchDirections ==
    {dir_next, dir_prev, cha, chA, <<"A", "l">>, <<"z">>,
     <<"d", "c", "c">>, <<"1">>, <<"2">>, <<"4">>, <<"9">>}

\* an error is reported in a window that has no lines yet
SwitchNext ==
    \/ \E direction \in SwitchDirections :
           /\ switch_active_context(direction)
           /\ scrollback' = scrollback \/ scrollback[active_context_name] = 0
    \/ \E direction \in {dir_next, dir_prev, <<"z">>} : switch_active_channel(direction)

SpecSwitch == InitSwitch /\ [][SwitchNext]_vars

-----------------------------------------------------------------------------
(* Claims about messages and windows *)

\* the calls of add_message that name the context and the sender
MessageOps == {"add_message", "irc_protocol.handle_server_message"}

\* the ident is matched by a glob of the ignore list
MatchesIgnoreList(ident) ==
    \E pattern \in ignore_list : fnmatch(Lower(ident), Lower(pattern))

\* the call that ran last was add_message for a PRIVMSG or NOTICE of a sender
\* on the ignore list
IgnoredMessage(effects) ==
    /\ effects.op \in MessageOps
    /\ effects.params[2] # None
    /\ MatchesIgnoreList(effects.params[2])

\* C25: add_message drops a PRIVMSG or NOTICE of an ignored sender silently:
\* no context is created, no line is appended, no scrollback offset changes
\* and no MESSAGE_ADDED_TO_CONTEXT event is dispatched
C25_IgnoredMessageDropped ==
    [][IgnoredMessage(last')
           => /\ contexts' = contexts
              /\ scrollback' = scrollback
              /\ scrollback_offset' = scrollback_offset
              /\ last'.events = <<>>
              /\ last'.msgs = <<>>]_vars

\* a message of an ignored sender arrived for a window that has no lines
C25_Witness ==
    /\ IgnoredMessage(last)
    /\ last.op = "irc_protocol.handle_server_message"
    /\ scrollback[_normalize_context_name(last.params[1])] = 0
    /\ last.events = <<>>

\* C26: a PRIVMSG or NOTICE that carries a DCC request is handed to the DCC
\* side exactly when DCC is enabled; every other one, also a DCC request
\* while DCC is disabled, is processed by the message router
C26_DccCtcpDivertedIffEnabled ==
    [][\A command \in {"PRIVMSG", "NOTICE"}, trailing \in Trailings :
           handle_server_message(command, al9_ident, chA, trailing)
               => IF IsDccCtcp(command, trailing) /\ dcc_config.enabled
                  THEN last'.op \in {"process_ctcp", "handle_incoming_dcc_ctcp"}
                  ELSE last'.op = "irc_protocol.handle_server_message"]_vars

\* C30: lines appended to the active context while it is scrolled up move its
\* scrollback offset by their number; lines for another context, or for an
\* active context that is not scrolled, leave every offset as it is
C30_OffsetFollowsNewLines ==
    [][(last'.op \in MessageOps /\ last'.msgs # <<>>)
           => LET key == last'.msgs[1]
                  n == Len(last'.msgs)
              IN  IF key = active_context_name /\ scrollback_offset[key] > 0
                  THEN scrollback_offset' =
                           [scrollback_offset EXCEPT ![key] = @ + n]
                  ELSE scrollback_offset' = scrollback_offset]_vars

\* the contexts whose name is the given one when the letter case is ignored
ExactIgnoringCase(direction) ==
    {name \in get_all_context_names(contexts) : EqIgnoreCase(name, direction)}

\* C27: a name that equals exactly one context name when the letter case is
\* ignored selects that context, also when it is part of several names
C27_ExactNameBeatsAmbiguity ==
    [][\A direction \in SwitchDirections :
           (/\ Cardinality(ExactIgnoringCase(direction)) = 1
            /\ switch_active_context(direction))
               => active_context_name' \in ExactIgnoringCase(direction)]_vars

\* the place of a context in the switching order: Status first, DCC last, the
\* others between them by their names in lower case
WindowPosition(name) ==
    LET names == get_all_context_names(contexts)
    IN  IF name = Status THEN 1
        ELSE IF name = dcc_context THEN Cardinality(names)
        ELSE Cardinality(names \cap {Status})
             + Cardinality({other \in names \ {Status, dcc_context} :
                               LowerRank[other] < LowerRank[name]})
             + 1

NextContext(name) == SwitchTarget(contexts, name, dir_next).new_active_context_name
PrevContext(name) == SwitchTarget(contexts, name, dir_prev).new_active_context_name

RECURSIVE NextTimes(_, _)
NextTimes(name, n) == IF n = 0 THEN name ELSE NextTimes(NextContext(name), n - 1)

NumContexts == Cardinality(get_all_context_names(contexts))

ChannelsAndStatus ==
    {name \in get_all_context_names(contexts) :
        contexts[name].type \in {"channel", "status"}}

NextChannel(name) == ChannelTarget(contexts, name, dir_next)

RECURSIVE NextChannelTimes(_, _)
NextChannelTimes(name, n) ==
    IF n = 0 THEN name ELSE NextChannelTimes(NextChannel(name), n - 1)

\* C29: next and prev of switch_active_channel leave the active context on a
\* channel or on Status, and from there next comes by every channel and
\* Status once before it is back
C29_ChannelCycle ==
    [][\A direction \in {dir_next, dir_prev} :
           switch_active_channel(direction)
               => /\ active_context_name' \in ChannelsAndStatus
                  /\ {NextChannelTimes(active_context_name', n) :
                         n \in 1..Cardinality(ChannelsAndStatus)} = ChannelsAndStatus
                  /\ NextChannelTimes(active_context_name',
                                      Cardinality(ChannelsAndStatus))
                         = active_context_name']_vars

\* the channel switch has run with two channels, queries and DCC in the list,
\* after the user was in a query window
C29_Witness ==
    /\ last.op = "switch_active_channel"
    /\ last.params = <<dir_prev>>
    /\ active_context_name = chb
    /\ get_all_context_names(contexts) = {Status, cha, chb, al, al9, dcc_context}
    /\ scrollback[al9] > 0

-----------------------------------------------------------------------------
(* Names listings outside a join *)

\* our own PART coming back from the server: the channel context stays, its
\* join_status becomes PARTED and the channel leaves the joined set
handle_self_part(channel) ==
    /\ get_context(contexts, channel).type = "channel"
    /\ contexts' = SetJoinStatus(contexts, channel, "PARTED")
    /\ currently_joined_channels' = currently_joined_channels \ {channel}
    /\ last' = Effects("PART", 0, <<channel>>, Before(channel), <<>>, <<>>, <<>>)
    /\ UNCHANGED <<active_context_name, last_join_command_target,
                   initial_channels, ui_needs_update>>
    /\ UNCHANGED <<nickVars, otherVars>>

NamesNext ==
    \/ ChannelNext
    \/ \E ch \in {cha, chA} : handle_self_part(ch)

SpecNames == InitOneChannel /\ [][NamesNext]_vars

\* the join statuses of a channel no join is in progress for
SettledJoinStatuses == {"NOT_JOINED", "FULLY_JOINED", "PARTED", "JOIN_FAILED"}

\* C34: a 353 or a 366 for a channel whose join_status is NOT_JOINED,
\* FULLY_JOINED, PARTED or JOIN_FAILED leaves that join_status and
\* currently_joined_channels as they are and emits no CHANNEL_FULLY_JOINED; a
\* 366 for a channel without context makes no channel FULLY_JOINED
C34_StrayNamesKeepJoinState ==
    [][\A ch \in {cha, chA} :
          (\/ _handle_rpl_namreply(<<nick, equals, ch>>)
           \/ _handle_rpl_endofnames(<<nick, ch>>))
          => /\ get_context(contexts, ch).join_status \in SettledJoinStatuses
                => /\ get_context(contexts', ch).join_status
                          = get_context(contexts, ch).join_status
                   /\ currently_joined_channels' = currently_joined_channels
                   /\ \A i \in 1..Len(last'.events) :
                          last'.events[i].name # "CHANNEL_FULLY_JOINED"
             /\ (last'.op = "366" /\ ~HasContext(contexts, ch))
                => /\ contexts' = contexts
                   /\ currently_joined_channels' = currently_joined_channels]_vars

\* an end of names has arrived for a channel the user had left
C34_Witness ==
    /\ last.op = "366"
    /\ last.before.join_status = "PARTED"
    /\ get_context(contexts, Named(last.params)).join_status = "PARTED"

-----------------------------------------------------------------------------
(* The nick of an automatic retry *)

\* C35: the NICK an automatic retry sends differs from the nick that just
\* failed and is at most 9 characters long, for current nicks of 1 to 9
\* characters
C35_RetryNickIsNew ==
    (/\ last.op = "433"
     /\ last.sent # <<>>
     /\ Len(last.before.nick) \in 1..MaxNickLen)
    => /\ last.sent[1].arg # last.before.nick
       /\ Len(last.sent[1].arg) <= MaxNickLen

-----------------------------------------------------------------------------
(* add_message and _update_ui, statement by statement, on several threads *)

\* what the threads leave alone
sequentialVars == <<chanVars, nickVars, last, saslVars, dccVars, storeVars, windowVars,
                     commandVars>>

\* the add_message calls of one thread
MaxMessages == 1

hi_there_you == <<"h", "i", " ", "t", "h", "e", "r", "e", " ", "y", "o", "u">>

\* the texts the threads write: one line, and two lines after wrapping
ThreadTexts == {hi, hi_there_you}

\* how many add_message calls of t have put their first line in the buffer
Sent(t) == pc[t].sent

\* add_message up to the wrapping loop: lines is computed, nothing is appended
add_message_wraps(t, text) ==
    LET max_w == IF msg_win_width > 1 THEN msg_win_width - 1 ELSE 80
    IN  /\ pc[t].at = "idle"
        /\ Sent(t) < MaxMessages
        /\ pc' = [pc EXCEPT ![t] = [at |-> "append", sent |-> Sent(t) + 1, part |-> 1,
                                    lines |-> wrapped_lines(text, max_w)]]
        /\ UNCHANGED <<buffer, pending_signal, ui_needs_update, sequentialVars>>

\* deque(maxlen=max_history).append
AppendBounded(lines, line) ==
    IF Len(lines) >= max_history THEN Append(Tail(lines), line) ELSE Append(lines, line)

\* one turn of `for line_part in lines`: ContextManager.add_message_to_context
add_message_to_context(t) ==
    /\ pc[t].at = "append"
    /\ buffer' = AppendBounded(buffer, [thread |-> t, message |-> Sent(t),
                                        part |-> pc[t].part])
    /\ pc' = [pc EXCEPT ![t] = IF pc[t].part < pc[t].lines
                               THEN [@ EXCEPT !.part = @ + 1]
                               ELSE [at |-> "signal", sent |-> Sent(t)]]
    /\ UNCHANGED <<pending_signal, ui_needs_update, sequentialVars>>

\* the end of add_message: the event is dispatched, ui_needs_update.set()
add_message_signals(t) ==
    /\ pc[t].at = "signal"
    /\ ui_needs_update' = TRUE
    /\ pending_signal' = TRUE
    /\ pc' = [pc EXCEPT ![t] = [at |-> "idle", sent |-> Sent(t)]]
    /\ UNCHANGED <<buffer, sequentialVars>>

\* _update_ui: ui_needs_update.is_set() was true, refresh_all_windows starts
update_ui_is_set ==
    /\ pc["ui"].at = "check"
    /\ ui_needs_update
    /\ pc' = [pc EXCEPT !["ui"] = [at |-> "refresh"]]
    /\ pending_signal' = FALSE
    /\ UNCHANGED <<buffer, ui_needs_update, sequentialVars>>

\* refresh_all_windows returns
refresh_all_windows ==
    /\ pc["ui"].at = "refresh"
    /\ pc' = [pc EXCEPT !["ui"] = [at |-> "clear"]]
    /\ UNCHANGED <<buffer, pending_signal, ui_needs_update, sequentialVars>>

\* ui_needs_update.clear(), and run_main_loop comes round again
update_ui_clear ==
    /\ pc["ui"].at = "clear"
    /\ ui_needs_update' = FALSE
    /\ pc' = [pc EXCEPT !["ui"] = [at |-> "check"]]
    /\ UNCHANGED <<buffer, pending_signal, sequentialVars>>

\* one statement of the main loop
run_main_loop == update_ui_is_set \/ refresh_all_windows \/ update_ui_clear

InitThreaded ==
    /\ InitWith(bob, {})
    /\ InitDcc(DefaultDccConfig, {})

ThreadsNext ==
    \/ \E t \in Writers, text \in ThreadTexts : add_message_wraps(t, text)
    \/ \E t \in Writers : add_message_to_context(t)
    \/ \E t \in Writers : add_message_signals(t)
    \/ update_ui_is_set
    \/ refresh_all_windows
    \/ update_ui_clear

SpecThreads == InitThreaded /\ [][ThreadsNext]_vars

\* the main loop keeps running: it is not held up for ever
SpecMainLoop == SpecThreads /\ WF_vars(run_main_loop)

\* C31: the wrapped lines of one message are consecutive in the scrollback,
\* whichever threads call add_message for the context at the same time: a
\* line that is not the first of its message follows the line before it of
\* the same message
C31_LinesOfAMessageAreConsecutive ==
    \A i \in 2..Len(buffer) :
        buffer[i].part > 1
        => /\ buffer[i - 1].thread = buffer[i].thread
           /\ buffer[i - 1].message = buffer[i].message
           /\ buffer[i - 1].part = buffer[i].part - 1

\* C40: a needs-refresh signal is followed by a refresh that starts after it
C40_SignalIsRefreshed == pending_signal ~> ~pending_signal

-----------------------------------------------------------------------------
(* CommandHandler.process_user_command and the handlers it dispatches *)

\* the process_user_command calls of one run
MaxCommands == 3

\* how deep the handlers nest when nothing stops them
MaxNesting == 2

hello == <<"h", "e", "l", "l", "o">>
slash_known == <<"/", "k", "n", "o", "w", "n">>
slash_script == <<"/", "s", "c", "r", "i", "p", "t">>
slash_nope == <<"/", "n", "o", "p", "e">>

\* the lines the user and the handlers pass: text, a command of command_map,
\* a script command, a command nobody knows
CommandLines == {hello, slash_known, slash_script, slash_nope}

command_map == {Tail(slash_known)}

script_commands == {Tail(slash_script)}

Unknown_command == <<"U", "n", "k", "n", "o", "w", "n", " ", "c", "o", "m", "m", "a", "n", "d", ":", " ">>
Error_in_command == <<"E", "r", "r", "o", "r", " ", "i", "n", " ", "c", "o", "m", "m", "a", "n", "d", " ", "/">>
No_active_window == <<"N", "o", " ", "a", "c", "t", "i", "v", "e", " ", "w", "i", "n", "d", "o", "w">>

\* a handler that lets every call through
NeverRejected(depth) == FALSE

\* the re-entrancy test of process_user_command
Rejected(depth) == depth > 1

\* what process_user_command leaves alone besides its own counter
commandFrame == <<currently_joined_channels, last_join_command_target,
                  initial_channels, nickVars, saslVars, dccVars, storeVars, ignore_list,
                  active_context_name, pc, buffer, pending_signal>>

Returned(line, value, dispatched) ==
    Append(command_log, [line |-> line, nested |-> command_stack # <<>>,
                         returned |-> value, dispatched |-> dispatched])

NoMessage == UNCHANGED <<contexts, scrollback, scrollback_offset, ui_needs_update, last>>

ErrorContext == IF active_context_name # None THEN active_context_name ELSE Status

\* process_user_command up to the call of the handler, or to its return when
\* it calls none; the caller is the input loop or a handler that is running
process_user_command(line) ==
    LET cmd == Lower(Tail(line))
    IN  /\ Len(command_log) + Len(command_stack) < MaxCommands
        /\ Len(command_stack) < MaxNesting
        /\ UNCHANGED commandFrame
        /\ IF Rejected(_processing_depth + 1)
           THEN /\ command_log' = Returned(line, "False", FALSE)
                /\ UNCHANGED <<_processing_depth, command_stack>>
                /\ NoMessage
           ELSE IF ~startswith(line, <<"/">>) /\ active_context_name = None
           THEN /\ command_log' = Returned(line, "False", FALSE)
                /\ MessageAdded("process_user_command", No_active_window, TRUE,
                                Status, None, FALSE)
                /\ UNCHANGED <<_processing_depth, command_stack>>
           ELSE IF \/ ~startswith(line, <<"/">>)
                   \/ cmd \in command_map
                   \/ cmd \in script_commands
           THEN /\ _processing_depth' = _processing_depth + 1
                /\ command_stack' = Append(command_stack, line)
                /\ UNCHANGED command_log
                /\ NoMessage
           ELSE /\ command_log' = Returned(line, "True", FALSE)
                /\ MessageAdded("process_user_command", Unknown_command \o cmd, TRUE,
                                ErrorContext, None, FALSE)
                /\ UNCHANGED <<_processing_depth, command_stack>>

\* the handler of the innermost call returns: return True, then the finally
handler_returns ==
    /\ command_stack # <<>>
    /\ command_stack' = Front(command_stack)
    /\ command_log' = command_log \o
                       <<[line |-> command_stack[Len(command_stack)],
                          nested |-> Len(command_stack) > 1,
                          returned |-> "True", dispatched |-> TRUE]>>
    /\ _processing_depth' = _processing_depth - 1
    /\ NoMessage
    /\ UNCHANGED commandFrame

\* the handler of the innermost call raises: a command handler's exception
\* is reported and True returned, handle_text_input's exception goes on to
\* the caller; the finally runs in both cases
handler_raises ==
    LET line == command_stack[Len(command_stack)]
    IN  /\ command_stack # <<>>
        /\ command_stack' = Front(command_stack)
        /\ _processing_depth' = _processing_depth - 1
        /\ UNCHANGED commandFrame
        /\ IF startswith(line, <<"/">>)
           THEN /\ command_log' = command_log \o
                       <<[line |-> line, nested |-> Len(command_stack) > 1,
                          returned |-> "True", dispatched |-> TRUE]>>
                /\ MessageAdded("process_user_command",
                                Error_in_command \o Lower(Tail(line)), TRUE,
                                ErrorContext, None, FALSE)
           ELSE /\ command_log' = command_log \o
                       <<[line |-> line, nested |-> Len(command_stack) > 1,
                          returned |-> "raised", dispatched |-> TRUE]>>
                /\ NoMessage

CommandNext ==
    \/ \E line \in CommandLines : process_user_command(line)
    \/ handler_returns
    \/ handler_raises

SpecCommand == InitThreaded /\ [][CommandNext]_vars

\* C32: a process_user_command call made while another is in progress returns
\* False and dispatches no handler, and the depth counter is 0 whenever no
\* call is in progress, also after a handler has raised
C32_NestedCallRejected ==
    /\ \A i \in 1..Len(command_log) :
          command_log[i].nested
          => /\ command_log[i].returned = "False"
             /\ ~command_log[i].dispatched
    /\ command_stack = <<>> => _processing_depth = 0

\* a handler has called process_user_command, was turned down, and raised
C32_Witness ==
    /\ Len(command_log) = 2
    /\ command_log[1].nested /\ command_log[1].returned = "False"
    /\ ~command_log[2].nested /\ command_log[2].returned = "raised"
    /\ command_stack = <<>>
    /\ _processing_depth = 0

-----------------------------------------------------------------------------
(* DCC requests of ignored senders *)

\* C36: a PRIVMSG or NOTICE of a sender on the ignore list has no effect, also
\* when it carries a DCC request: it is not handed to the DCC CTCP handler,
\* nothing is stored and nothing is written to a window
C36_IgnoredSenderReachesNoDcc ==
    [][\A command \in {"PRIVMSG", "NOTICE"}, trailing \in Trailings :
           (/\ is_source_ignored(al9_ident)
            /\ handle_server_message(command, al9_ident, chA, trailing))
               => /\ last'.op # "process_ctcp"
                  /\ last'.msgs = <<>>
                  /\ contexts' = contexts
                  /\ scrollback' = scrollback
                  /\ pending_passive_offers' = pending_passive_offers
                  /\ transfers' = transfers]_vars

-----------------------------------------------------------------------------
(* The DCC manager, statement by statement, on several threads *)

\* the receives one run sets up
MaxReceives == 2

\* the calls one thread makes
MaxDccCalls == 1

\* a transfer that ended longer ago than transfer_max_age_seconds
OldTransfer ==
    [DCCReceiveTransfer("old.bin", max_file_size, "", 0) EXCEPT
        !.status = "COMPLETED", !.end_time = 1, !.bytes_transferred = max_file_size]

\* the manager some time after its construction: one transfer has ended long
\* ago, one passive offer is stored, the cleanup timer is waiting
InitDccThreaded ==
    /\ InitWith(bob, {})
    /\ transfers = [id \in TransferIds |-> IF id = 1 THEN OldTransfer ELSE NoTransfer]
    /\ transfer_ids_generated = 1
    /\ now = transfer_max_age_seconds + 2
    /\ pending_passive_offers =
          [t \in Tokens |-> IF t = "tok42"
                            THEN [filename |-> GoodFile.filename,
                                  filesize |-> GoodFile.filesize,
                                  timestamp |-> transfer_max_age_seconds + 2]
                            ELSE NoOffer]
    /\ bound_ports = {}
    /\ ports_in_use = {}
    /\ dcc_config = [port_range_start |-> 5000, port_range_end |-> 5001,
                     enabled |-> TRUE, resume_enabled |-> TRUE]
    /\ cleanup_due = transfer_max_age_seconds + 2
    /\ dcc_returned = "none"
    /\ cancelled = {}
    /\ send_queues = [p \in Peers |-> <<>>]
    /\ queue_attempts = [id \in TransferIds |-> 0]
    /\ InitDccThreads

\* what the steps of the threads leave alone
dccThreadFrame == <<clientVars, ports_in_use, dcc_config, now, cleanup_due, dcc_returned,
                    cancelled, sendVars, last>>

At(t, where) == dcc_pc[t].at = where

Goto(t, where) == [dcc_pc EXCEPT ![t].at = where]

\* the call of t has returned
ReturnFrom(t, value) ==
    [dcc_pc EXCEPT ![t] = [at |-> "idle", calls |-> dcc_pc[t].calls + 1,
                           returned |-> value]]

Logged(name, id) == [dcc_log EXCEPT ![id] = Append(@, name)]

\* threading.Timer: the interval has passed, _scheduled_cleanup_task starts on
\* the timer thread
timer_fires ==
    /\ _cleanup_timer = "waiting"
    /\ At("timer", "idle")
    /\ _cleanup_timer' = "fired"
    /\ dcc_pc' = Goto("timer", "cleanup")
    /\ UNCHANGED <<_lock, shutdown_returned, workers, dcc_log, transfers,
                   transfer_ids_generated, pending_passive_offers, bound_ports,
                   ui_needs_update, dccThreadFrame>>

\* _cleanup_finished_transfers: with self._lock, the old transfers are deleted
cleanup_locks ==
    LET cleaned == {id \in TransferIds :
                       MarkedForCleanup(transfers[id], transfer_max_age_seconds)}
    IN  /\ At("timer", "cleanup")
        /\ _lock = ""
        /\ _lock' = "timer"
        /\ transfers' = _cleanup_finished_transfers(transfers)
        /\ dcc_pc' = [dcc_pc EXCEPT !["timer"] =
                         [at |-> "locked", calls |-> @.calls, returned |-> "none",
                          cleaned_count |-> Cardinality(cleaned)]]
        /\ UNCHANGED <<_cleanup_timer, shutdown_returned, workers, dcc_log,
                       transfer_ids_generated, pending_passive_offers, bound_ports,
                       ui_needs_update, dccThreadFrame>>

\* _cleanup_finished_transfers, cleaned_count > 0: client_logic.add_message is
\* called inside the with block
cleanup_calls_add_message ==
    /\ At("timer", "locked")
    /\ dcc_pc["timer"].cleaned_count > 0
    /\ dcc_pc' = Goto("timer", "add_message")
    /\ UNCHANGED <<_lock, _cleanup_timer, shutdown_returned, workers, dcc_log, transfers,
                   transfer_ids_generated, pending_passive_offers, bound_ports,
                   ui_needs_update, dccThreadFrame>>

\* add_message dispatches MESSAGE_ADDED_TO_CONTEXT on the calling thread: no
\* listener calls the manager, or one calls get_transfer_statuses, which waits
\* for self._lock
message_listener(calls_manager) ==
    /\ At("timer", "add_message")
    /\ dcc_pc' = Goto("timer", IF calls_manager THEN "with self._lock" ELSE "unlock")
    /\ ui_needs_update' = TRUE
    /\ UNCHANGED <<_lock, _cleanup_timer, shutdown_returned, workers, dcc_log, transfers,
                   transfer_ids_generated, pending_passive_offers, bound_ports,
                   dccThreadFrame>>

\* the with block of _cleanup_finished_transfers ends
cleanup_unlocks ==
    /\ \/ At("timer", "unlock")
       \/ At("timer", "locked") /\ dcc_pc["timer"].cleaned_count = 0
    /\ _lock' = ""
    /\ dcc_pc' = [dcc_pc EXCEPT !["timer"] = [at |-> "reschedule", calls |-> @.calls,
                                                 returned |-> "none"]]
    /\ UNCHANGED <<_cleanup_timer, shutdown_returned, workers, dcc_log, transfers,
                   transfer_ids_generated, pending_passive_offers, bound_ports,
                   ui_needs_update, dccThreadFrame>>

\* _scheduled_cleanup_task after the cleanup: _start_cleanup_timer cancels the
\* timer it finds and starts a new one
_start_cleanup_timer ==
    /\ At("timer", "reschedule")
    /\ _cleanup_timer' = "waiting"
    /\ dcc_pc' = Goto("timer", "idle")
    /\ UNCHANGED <<_lock, shutdown_returned, workers, dcc_log, transfers,
                   transfer_ids_generated, pending_passive_offers, bound_ports,
                   ui_needs_update, dccThreadFrame>>

\* DCCManager.shutdown, called by run_main_loop when it ends
shutdown ==
    /\ At("ui", "idle")
    /\ ~shutdown_returned
    /\ _cleanup_timer' = "None"
    /\ shutdown_returned' = TRUE
    /\ dcc_pc' = Goto("ui", "quit")
    /\ UNCHANGED <<_lock, workers, dcc_log, transfers,
                   transfer_ids_generated, pending_passive_offers, bound_ports,
                   ui_needs_update, dccThreadFrame>>

\* get_transfer_statuses: with self._lock, the table is read and
\* passive_offer_manager.get_status_lines is called
get_transfer_statuses(t) ==
    /\ At(t, "idle")
    /\ dcc_pc[t].calls < MaxDccCalls
    /\ _lock = ""
    /\ _lock' = t
    /\ dcc_pc' = Goto(t, "get_status_lines")
    /\ UNCHANGED <<_cleanup_timer, shutdown_returned, workers, dcc_log, transfers,
                   transfer_ids_generated, pending_passive_offers, bound_ports,
                   ui_needs_update, dccThreadFrame>>

\* get_transfer_statuses returns
statuses_returned(t) ==
    /\ At(t, "get_status_lines")
    /\ _lock' = ""
    /\ dcc_pc' = ReturnFrom(t, "lines")
    /\ UNCHANGED <<_cleanup_timer, shutdown_returned, workers, dcc_log, transfers,
                   transfer_ids_generated, pending_passive_offers, bound_ports,
                   ui_needs_update, dccThreadFrame>>

CleanupNext ==
    \/ timer_fires
    \/ cleanup_locks
    \/ cleanup_calls_add_message
    \/ \E calls_manager \in BOOLEAN : message_listener(calls_manager)
    \/ cleanup_unlocks
    \/ _start_cleanup_timer
    \/ shutdown
    \/ \E t \in Callers : get_transfer_statuses(t)
    \/ \E t \in Callers : statuses_returned(t)


\* accept_passive_offer_by_token up to the test of what get_offer returned
accept_gets_offer(t, offer_token) ==
    LET pending_offer_details == get_offer(offer_token)
    IN  /\ At(t, "idle")
        /\ dcc_pc[t].calls < MaxDccCalls
        /\ IF pending_offer_details = NoOffer
           THEN dcc_pc' = ReturnFrom(t, "not found")
           ELSE dcc_pc' = [dcc_pc EXCEPT ![t] =
                              [at |-> "remove_offer", calls |-> @.calls,
                               token |-> offer_token,
                               details |-> pending_offer_details]]
        /\ UNCHANGED <<dcc_log, _lock, _cleanup_timer, shutdown_returned, workers, transfers,
                       transfer_ids_generated, pending_passive_offers, bound_ports,
                       ui_needs_update, dccThreadFrame>>

\* accept_passive_offer_by_token: remove_offer, whose failure is only logged
accept_removes_offer(t) ==
    /\ At(t, "remove_offer")
    /\ pending_passive_offers' = remove_offer(pending_passive_offers, dcc_pc[t].token)
    /\ dcc_pc' = Goto(t, "initiate")
    /\ UNCHANGED <<_lock, _cleanup_timer, shutdown_returned, workers, dcc_log, transfers,
                   transfer_ids_generated, bound_ports, ui_needs_update, dccThreadFrame>>

\* initiate_passive_receive up to the end of its with block: the path is
\* validated, a listening socket bound, the transfer put in the table
passive_receive_registers(t) ==
    LET transfer_id == transfer_ids_generated + 1
        local_listening_port == _get_listening_socket
        details == dcc_pc[t].details
    IN  /\ At(t, "initiate")
        /\ IF \/ ~validate_download_path(details.filename, details.filesize)
              \/ local_listening_port = 0
           THEN /\ dcc_pc' = ReturnFrom(t, "failure")
                /\ UNCHANGED <<transfers, transfer_ids_generated, bound_ports>>
           ELSE /\ transfer_ids_generated < MaxReceives + 1
                /\ _lock = ""
                /\ transfer_ids_generated' = transfer_id
                /\ bound_ports' = bound_ports \cup {local_listening_port}
                /\ transfers' = [transfers EXCEPT ![transfer_id] =
                                    DCCReceiveTransfer(details.filename, details.filesize,
                                                       dcc_pc[t].token,
                                                       local_listening_port)]
                /\ dcc_pc' = [dcc_pc EXCEPT ![t] =
                                 [at |-> "send_ctcp_privmsg", calls |-> @.calls,
                                  token |-> @.token, id |-> transfer_id]]
        /\ UNCHANGED <<dcc_log, _lock, _cleanup_timer, shutdown_returned, workers,
                       pending_passive_offers, ui_needs_update, dccThreadFrame>>

\* initiate_passive_receive: the DCC ACCEPT goes out and the transfer reports
\* NEGOTIATING, which update_transfer_status stores and shows
passive_receive_sends_accept(t) ==
    /\ At(t, "send_ctcp_privmsg")
    /\ _lock = ""
    /\ dcc_log' = Logged("DCC ACCEPT", dcc_pc[t].id)
    /\ transfers' = _report_status(transfers, dcc_pc[t].id, "NEGOTIATING")
    /\ ui_needs_update' = TRUE
    /\ dcc_pc' = Goto(t, "start_transfer_thread")
    /\ UNCHANGED <<_lock, _cleanup_timer, shutdown_returned, workers,
                   transfer_ids_generated, pending_passive_offers, bound_ports,
                   dccThreadFrame>>

\* accept_incoming_send_offer up to start_transfer_thread: the path is
\* validated, the transfer put in the table, QUEUED reported
active_receive_registers(t, file) ==
    LET transfer_id == transfer_ids_generated + 1
    IN  /\ At(t, "idle")
        /\ dcc_pc[t].calls < MaxDccCalls
        /\ IF ~validate_download_path(file.filename, file.filesize)
           THEN /\ dcc_pc' = ReturnFrom(t, "failure")
                /\ UNCHANGED <<transfers, transfer_ids_generated, ui_needs_update>>
           ELSE /\ transfer_ids_generated < MaxReceives + 1
                /\ _lock = ""
                /\ transfer_ids_generated' = transfer_id
                /\ transfers' =
                      _report_status(
                          [transfers EXCEPT ![transfer_id] =
                              DCCReceiveTransfer(file.filename, file.filesize, "", 0)],
                          transfer_id, "QUEUED")
                /\ ui_needs_update' = TRUE
                /\ dcc_pc' = [dcc_pc EXCEPT ![t] =
                                 [at |-> "start_transfer_thread", calls |-> @.calls,
                                  token |-> "", id |-> transfer_id]]
        /\ UNCHANGED <<dcc_log, _lock, _cleanup_timer, shutdown_returned, workers,
                       pending_passive_offers, bound_ports, dccThreadFrame>>

\* recv_transfer.start_transfer_thread()
start_transfer_thread(t) ==
    /\ At(t, "start_transfer_thread")
    /\ workers' = workers \cup {dcc_pc[t].id}
    /\ dcc_pc' = Goto(t, "dispatch_event")
    /\ UNCHANGED <<_lock, _cleanup_timer, shutdown_returned, dcc_log, transfers,
                   transfer_ids_generated, pending_passive_offers, bound_ports,
                   ui_needs_update, dccThreadFrame>>

\* the end of both accepts: DCC_TRANSFER_QUEUED is dispatched, a line added
\* to the DCC window, success returned
dispatch_queued(t) ==
    /\ At(t, "dispatch_event")
    /\ dcc_log' = Logged("DCC_TRANSFER_QUEUED", dcc_pc[t].id)
    /\ ui_needs_update' = TRUE
    /\ dcc_pc' = ReturnFrom(t, "success")
    /\ UNCHANGED <<_lock, _cleanup_timer, shutdown_returned, workers, transfers,
                   transfer_ids_generated, pending_passive_offers, bound_ports,
                   dccThreadFrame>>

\* the statuses the thread of a receive reports, each after the one before
FollowingStatuses(status) ==
    CASE status \in {"QUEUED", "NEGOTIATING"} -> {"CONNECTING"}
      [] status = "CONNECTING" -> {"TRANSFERRING", "FAILED"}
      [] status = "TRANSFERRING" -> {"COMPLETED", "FAILED"}
      [] OTHER -> {}

\* the thread of a transfer reports a status: update_transfer_status looks
\* the transfer up with self._lock, stores the status and dispatches its event
worker_reports(transfer_id, status) ==
    /\ transfer_id \in workers
    /\ status \in FollowingStatuses(transfers[transfer_id].status)
    /\ _lock = ""
    /\ transfers' = _report_status(transfers, transfer_id, status)
    /\ dcc_log' = IF StatusEventName(status) = "" THEN dcc_log
                  ELSE Logged(StatusEventName(status), transfer_id)
    /\ ui_needs_update' = TRUE
    /\ UNCHANGED <<dcc_pc, _lock, _cleanup_timer, shutdown_returned, workers,
                   transfer_ids_generated, pending_passive_offers, bound_ports,
                   dccThreadFrame>>

\* the thread of a transfer reports what it received: update_transfer_progress
worker_progress(transfer_id) ==
    /\ transfer_id \in workers
    /\ transfers[transfer_id].status = "TRANSFERRING"
    /\ transfers[transfer_id].bytes_transferred = 0
    /\ _lock = ""
    /\ transfers' = [transfers EXCEPT ![transfer_id].bytes_transferred = @ + 1]
    /\ dcc_log' = Logged("DCC_TRANSFER_PROGRESS", transfer_id)
    /\ UNCHANGED <<dcc_pc, _lock, _cleanup_timer, shutdown_returned, workers,
                   transfer_ids_generated, pending_passive_offers, bound_ports,
                   ui_needs_update, dccThreadFrame>>

AcceptNext ==
    \/ \E t \in Callers : accept_gets_offer(t, "tok42")
    \/ \E t \in Callers : accept_removes_offer(t)
    \/ \E t \in Callers : passive_receive_registers(t)
    \/ \E t \in Callers : passive_receive_sends_accept(t)
    \/ active_receive_registers("ui", GoodFile)
    \/ \E t \in Callers : start_transfer_thread(t)
    \/ \E t \in Callers : dispatch_queued(t)
    \/ \E id \in TransferIds, status \in ReportedStatuses : worker_reports(id, status)
    \/ \E id \in TransferIds : worker_progress(id)

\* the cleanup timer, shutdown and the transfer list
SpecDccTimer == InitDccThreaded /\ [][CleanupNext]_vars

\* offers accepted by two threads, and the threads of the transfers
SpecDccReceive == InitDccThreaded /\ [][AcceptNext]_vars


\* where a thread is inside a call the manager makes to the outside, or waits
\* for the lock inside such a call
CallOuts == {"add_message", "get_status_lines", "with self._lock"}

\* C33: no operation of the DCC manager calls out (add_message, events,
\* sub-managers) while it holds the lock of the transfer table, so that no
\* callback that comes back into the manager waits for a lock its own thread
\* holds
C33_NoCallOutUnderLock ==
    \A t \in DccThreads : dcc_pc[t].at \in CallOuts => _lock # t

\* C39: once shutdown() has returned no cleanup timer is waiting, so that no
\* further cleanup run starts
C39_NoTimerAfterShutdown ==
    shutdown_returned => _cleanup_timer # "waiting"

\* the receives set up for a passive offer
ReceivesOf(offer_token) ==
    {id \in TransferIds : /\ transfers[id].transfer_type = "RECEIVE"
                          /\ transfers[id].token = offer_token}

\* C37: a passive offer token yields at most one RECEIVE transfer, one
\* listening socket and one DCC ACCEPT, however many threads accept it
C37_OneReceivePerToken ==
    \A offer_token \in Tokens :
        /\ Cardinality(ReceivesOf(offer_token)) <= 1
        /\ Cardinality({transfers[id].port : id \in ReceivesOf(offer_token)}) <= 1
        /\ Cardinality({id \in TransferIds :
                            /\ transfers[id].token = offer_token
                            /\ \E i \in 1..Len(dcc_log[id]) :
                                   dcc_log[id][i] = "DCC ACCEPT"}) <= 1

\* the events of a transfer that is under way or has ended
RunningEvents == {"DCC_TRANSFER_START", "DCC_TRANSFER_PROGRESS", "DCC_TRANSFER_COMPLETE",
                  "DCC_TRANSFER_ERROR", "DCC_TRANSFER_CANCELLED"}

\* C38: DCC_TRANSFER_QUEUED of an accepted transfer comes before its
\* DCC_TRANSFER_START, DCC_TRANSFER_PROGRESS and final event
C38_QueuedComesFirst ==
    \A id \in TransferIds : \A i \in 1..Len(dcc_log[id]) :
        dcc_log[id][i] \in RunningEvents
        => \E j \in 1..(i - 1) : dcc_log[id][j] = "DCC_TRANSFER_QUEUED"

====
